---- MODULE Spec2Model ----
(***************************************************************************)
(* A model of the streaming ESI transformer: the ESI-comment pre-processor, *)
(* the chunk recognizer, the streaming context with its element tree, the  *)
(* transform stream's dispatch loop and the ESI directive engine.          *)
(*                                                                         *)
(* Text is a TLA+ string; TLC evaluates Len, SubSeq and \o on strings.     *)
(* Positions are 0-based, as in the source.                                *)
(***************************************************************************)
EXTENDS Integers, Sequences, FiniteSets, TLC

\* JavaScript's undefined and null, for fields that otherwise hold a string.
Undefined == "<undefined>"
Null == "<null>"

----------------------------------------------------------------------------
(* String primitives of the host language *)

CharAt(s, i) == SubSeq(s, i + 1, i + 1)
Slice(s, from) == SubSeq(s, from + 1, Len(s))
SliceTo(s, from, to) == SubSeq(s, from + 1, to)

SetMin(S) == CHOOSE x \in S : \A y \in S : x <= y
SetMax(S) == CHOOSE x \in S : \A y \in S : x >= y

IndexOf(s, pat, from) ==
  LET ps == {i \in from..(Len(s) - Len(pat)) : SubSeq(s, i + 1, i + Len(pat)) = pat}
  IN IF ps = {} THEN -1 ELSE SetMin(ps)

LastIndexOf(s, pat) ==
  LET ps == {i \in 0..(Len(s) - Len(pat)) : SubSeq(s, i + 1, i + Len(pat)) = pat}
  IN IF ps = {} THEN -1 ELSE SetMax(ps)

EndsWith(s, pat) ==
  Len(s) >= Len(pat) /\ SubSeq(s, Len(s) - Len(pat) + 1, Len(s)) = pat

RECURSIVE ReplaceAll(_, _, _)
ReplaceAll(s, pat, by) ==
  LET p == IndexOf(s, pat, 0)
  IN IF p < 0 THEN s
     ELSE SliceTo(s, 0, p) \o by \o ReplaceAll(Slice(s, p + Len(pat)), pat, by)

StartsWith(s, pat) ==
  Len(s) >= Len(pat) /\ SubSeq(s, 1, Len(pat)) = pat

----------------------------------------------------------------------------
(* Character classes of the recognizer's regular expressions *)

Alpha == {"a","b","c","d","e","f","g","h","i","j","k","l","m",
          "n","o","p","q","r","s","t","u","v","w","x","y","z",
          "A","B","C","D","E","F","G","H","I","J","K","L","M",
          "N","O","P","Q","R","S","T","U","V","W","X","Y","Z"}
Digit == {"0","1","2","3","4","5","6","7","8","9"}
NameChar == Alpha \cup Digit \cup {"-"}
WhiteSpace == {" ", "\t", "\n", "\r"}

\* The first position >= i that is the end of s or holds no character of
\* Class: where a greedy Class* started at i stops.
SpanEnd(s, i, Class) ==
  SetMin({j \in i..Len(s) : j = Len(s) \/ CharAt(s, j) \notin Class})

\* [a-zA-Z][-a-zA-Z0-9]* at i: the position after it, or -1.
MatchName(s, i) ==
  IF i < Len(s) /\ CharAt(s, i) \in Alpha THEN SpanEnd(s, i + 1, NameChar) ELSE -1

\* ([a-zA-Z][-a-zA-Z0-9]*:)?[a-zA-Z][-a-zA-Z0-9]* at i, the prefix being
\* required when noDefaultNS: the position after it, or -1.
MatchFullname(s, i, noDefaultNS) ==
  LET After(e1) ==
        IF e1 < 0 THEN -1
        ELSE IF e1 < Len(s) /\ CharAt(s, e1) = ":" /\ MatchName(s, e1 + 1) >= 0
        THEN MatchName(s, e1 + 1)
        ELSE IF noDefaultNS THEN -1 ELSE e1
  IN After(MatchName(s, i))

\* name=("[^"]*"|'[^']*') at i: [end, name, value], end = -1 for no match.
MatchAttr(s, i) ==
  LET Quoted(e, q) ==
        LET close == IF q \in {"\"", "'"} THEN IndexOf(s, q, e + 2) ELSE -1
        IN IF close < 0 THEN [end |-> -1, name |-> "", value |-> ""]
           ELSE [end |-> close + 1, name |-> SliceTo(s, i, e),
                 value |-> SliceTo(s, e + 2, close)]
      Named(e) ==
        Quoted(e, IF e >= 0 /\ e + 1 < Len(s) /\ CharAt(s, e) = "=" THEN CharAt(s, e + 1)
                  ELSE "")
  IN Named(MatchFullname(s, i, FALSE))

\* (\s+ attr)* at i: the position after the last attribute matched.
RECURSIVE MatchAttrs(_, _)
MatchAttrs(s, i) ==
  LET w == SpanEnd(s, i, WhiteSpace)
      a == IF w > i THEN MatchAttr(s, w) ELSE [end |-> -1]
  IN IF a.end < 0 THEN i ELSE MatchAttrs(s, a.end)

NoMatch == [index |-> -1, end |-> -1, kind |-> "none", fullname |-> "", attrs |-> ""]

\* regexXmlTagOpenOrClose (or its NoDefaultNS form) anchored at the "<" at i.
MatchTagAt(s, i, noDefaultNS) ==
  LET Close(e, w) ==
        IF e >= 0 /\ w < Len(s) /\ CharAt(s, w) = ">"
        THEN [index |-> i, end |-> w + 1, kind |-> "tagClose",
              fullname |-> SliceTo(s, i + 2, e), attrs |-> ""]
        ELSE NoMatch
      Open(e, a, w) ==
        LET selfClosing == e >= 0 /\ w < Len(s) /\ CharAt(s, w) = "/"
            g == IF selfClosing THEN w + 1 ELSE w
        IN IF e >= 0 /\ g < Len(s) /\ CharAt(s, g) = ">"
           THEN [index |-> i, end |-> g + 1,
                 kind |-> IF selfClosing THEN "selfClosing" ELSE "tagOpen",
                 fullname |-> SliceTo(s, i + 1, e), attrs |-> SliceTo(s, e, a)]
           ELSE NoMatch
      OpenAttrs(e, a) == Open(e, a, IF e < 0 THEN -1 ELSE SpanEnd(s, a, WhiteSpace))
      OpenName(e) == OpenAttrs(e, IF e < 0 THEN -1 ELSE MatchAttrs(s, e))
      CloseName(e) == Close(e, IF e < 0 THEN -1 ELSE SpanEnd(s, e, WhiteSpace))
  IN IF i + 1 < Len(s) /\ CharAt(s, i + 1) = "/"
     THEN CloseName(MatchFullname(s, i + 2, noDefaultNS))
     ELSE OpenName(MatchFullname(s, i + 1, noDefaultNS))

\* A match that takes the tags without a prefix too.
RECURSIVE MatchTagOfEveryTag(_, _, _)
MatchTagOfEveryTag(s, from, noDefaultNS) ==
  LET p == IndexOf(s, "<", from)
      m == IF p < 0 THEN NoMatch ELSE MatchTagAt(s, p, FALSE)
  IN IF p < 0 THEN NoMatch
     ELSE IF m.kind # "none" THEN m
     ELSE MatchTagOfEveryTag(s, p + 1, noDefaultNS)

\* String.prototype.match with the tag regex: the leftmost match at or after from.
RECURSIVE MatchTag(_, _, _)
MatchTag(s, from, noDefaultNS) ==
  LET p == IndexOf(s, "<", from)
      m == IF p < 0 THEN NoMatch ELSE MatchTagAt(s, p, noDefaultNS)
  IN IF p < 0 THEN NoMatch
     ELSE IF m.kind # "none" THEN m
     ELSE MatchTag(s, p + 1, noDefaultNS)

\* regexXmlTagMaybeOpenOrClose: the index of the leftmost "<" followed by a
\* letter, or by "/" and a letter, with no ">" from there to the end; or -1.
MatchTagMaybeOpenOrClose(s) ==
  LET lastGt == LastIndexOf(s, ">")
      ps == {i \in (lastGt + 1)..(Len(s) - 1) :
               /\ CharAt(s, i) = "<"
               /\ \/ (i + 1 < Len(s) /\ CharAt(s, i + 1) \in Alpha)
                  \/ (i + 2 < Len(s) /\ CharAt(s, i + 1) = "/" /\ CharAt(s, i + 2) \in Alpha)}
  IN IF ps = {} THEN -1 ELSE SetMin(ps)

----------------------------------------------------------------------------
(* xmlUtils.xmlDecode *)

\* decodeTokens, in the order of its entries
XmlEntities == << <<"&lt;", "<">>, <<"&gt;", ">">>, <<"&quot;", "\"">>,
                  <<"&apos;", "'">>, <<"&amp;", "&">> >>

\* Object.entries(tokens).reduce((cur, [token, replacement]) =>
\*   cur.replaceAll(token, replacement), str), from the k-th entry on; a
\* token that does not occur leaves cur as it is.
RECURSIVE ReplaceTokens(_, _, _)
ReplaceTokens(tokens, k, cur) ==
  IF k > Len(tokens) THEN cur
  ELSE IF IndexOf(cur, tokens[k][1], 0) < 0 THEN ReplaceTokens(tokens, k + 1, cur)
  ELSE ReplaceTokens(tokens, k + 1, ReplaceAll(cur, tokens[k][1], tokens[k][2]))

xmlDecode(s) == ReplaceTokens(XmlEntities, 1, s)

----------------------------------------------------------------------------
(* XmlStreamer.parseXmlStringChunk *)

\* An ordered map (a JavaScript object with string keys): a sequence of
\* entries [key, ...] in insertion order.
MapHas(m, key) == \E k \in 1..Len(m) : m[k].key = key
MapIndex(m, key) == CHOOSE k \in 1..Len(m) : m[k].key = key
MapPut(m, entry) ==
  IF MapHas(m, entry.key) THEN [m EXCEPT ![MapIndex(m, entry.key)] = entry]
  ELSE Append(m, entry)
MapDelete(m, key) ==
  IF MapHas(m, key)
  THEN LET k == MapIndex(m, key) IN SubSeq(m, 1, k - 1) \o SubSeq(m, k + 1, Len(m))
  ELSE m

\* match.groups['attrs'].matchAll(regexXmlAttr): the attributes of the matched
\* tag, left to right, a repeated name keeping its first place and last value.
RECURSIVE parseAttrs(_, _, _)
parseAttrs(s, i, acc) ==
  LET w == SpanEnd(s, i, WhiteSpace)
      a == IF w < Len(s) THEN MatchAttr(s, w) ELSE [end |-> -1]
  IN IF a.end < 0 THEN acc
     ELSE parseAttrs(s, a.end, MapPut(acc, [key |-> a.name, value |-> xmlDecode(a.value)]))

ParseResult(type, content, localFullname, attrs, remaining) ==
  [type |-> type, content |-> content, localFullname |-> localFullname,
   attrs |-> attrs, remainingXmlString |-> remaining]

parseXmlStringChunk(xmlString, ignoreDefaultTags) ==
  LET Maybe(maybe) ==
        IF maybe >= 0
        THEN IF maybe > 0
             THEN ParseResult("text", SliceTo(xmlString, 0, maybe), "", << >>,
                              Slice(xmlString, maybe))
             ELSE ParseResult("unknown", "", "", << >>, xmlString)
        ELSE ParseResult("text", xmlString, "", << >>, "")
      Matched(match) ==
        IF match.kind # "none"
        THEN IF match.index > 0
             THEN ParseResult("text", SliceTo(xmlString, 0, match.index), "", << >>,
                              Slice(xmlString, match.index))
             ELSE IF match.kind = "tagClose"
             THEN ParseResult("element-close", "", match.fullname, << >>,
                              Slice(xmlString, match.end))
             ELSE ParseResult(IF match.kind = "selfClosing" THEN "element-self-close"
                                                           ELSE "element-open",
                              "", match.fullname, parseAttrs(match.attrs, 0, << >>),
                              Slice(xmlString, match.end))
        ELSE Maybe(MatchTagMaybeOpenOrClose(xmlString))
  IN Matched(MatchTag(xmlString, 0, ignoreDefaultTags))

----------------------------------------------------------------------------
(* The ESI-comment pre-processor, EsiTransformer.xmlStreamerBeforeProcess *)

EsiCommentOpen == "<!--esi"
EsiCommentClose == "-->"

\* The while(true) loop: removes alternating openers and closers, carrying
\* pos from one removal to the next search.
RECURSIVE stripEsiComments(_, _, _)
stripEsiComments(buf, inComment, pos) ==
  IF ~inComment
  THEN LET p == IndexOf(buf, EsiCommentOpen, pos)
       IN IF p < 0 THEN [bufferedString |-> buf, isInEsiComment |-> FALSE]
          ELSE stripEsiComments(SliceTo(buf, 0, p) \o Slice(buf, p + 7), TRUE, p)
  ELSE LET p == IndexOf(buf, EsiCommentClose, pos)
       IN IF p < 0 THEN [bufferedString |-> buf, isInEsiComment |-> TRUE]
          ELSE stripEsiComments(SliceTo(buf, 0, p) \o Slice(buf, p + 3), FALSE, p)

\* The position from which the buffer's tail is postponed, or -1.
sepPosOf(buf, inComment) ==
  IF inComment
  THEN IF EndsWith(buf, "--") THEN LastIndexOf(buf, "--")
       ELSE IF EndsWith(buf, "-") THEN LastIndexOf(buf, "-")
       ELSE -1
  ELSE IF \/ EndsWith(buf, "<") \/ EndsWith(buf, "<!") \/ EndsWith(buf, "<!-")
          \/ EndsWith(buf, "<!--") \/ EndsWith(buf, "<!--e") \/ EndsWith(buf, "<!--es")
       THEN LastIndexOf(buf, "<")
       ELSE -1

\* The tail is moved to postponedString only from a position > 0.
postponeFrom(sepPos) == sepPos > 0

\* The streamer state [bufferedString, postponedString] and the flag after
\* one call of the hook.
xmlStreamerBeforeProcess(buf, inComment) ==
  LET st == stripEsiComments(buf, inComment, 0)
      sepPos == sepPosOf(st.bufferedString, st.isInEsiComment)
  IN IF postponeFrom(sepPos)
     THEN [bufferedString |-> SliceTo(st.bufferedString, 0, sepPos),
           postponedString |-> Slice(st.bufferedString, sepPos),
           isInEsiComment |-> st.isInEsiComment]
     ELSE [bufferedString |-> st.bufferedString,
           postponedString |-> Undefined,
           isInEsiComment |-> st.isInEsiComment]

----------------------------------------------------------------------------
(* XmlModel: XmlDocument and XmlElement.                                    *)
(* Elements live in a heap, a sequence indexed by element id; a reference  *)
(* to an element is its id, and 0 is the null reference.  A node of a      *)
(* children list is a string or an element reference.                      *)

TextNode(str) == [t |-> "string", s |-> str, id |-> 0]
ElemNode(id) == [t |-> "element", s |-> "", id |-> id]
IsElem(node) == node.t = "element"

NoError == [kind |-> "none", message |-> "", el |-> 0]
Error(kind, message, el) == [kind |-> kind, message |-> message, el |-> el]

EsiNamespace == "http://www.edge-delivery.org/esi/1.0"

\* new XmlDocument(namespaceDefs): allowUnknownNamespacePrefixes defaults to false.
XmlDocument(namespaceDefs) ==
  [namespaceDefs |-> namespaceDefs, allowUnknownNamespacePrefixes |-> FALSE]

\* XmlElement.parseName: name.split(':'), of which two parts at most are used.
parseName(name) ==
  LET p == IndexOf(name, ":", 0)
      rest == Slice(name, p + 1)
      q == IndexOf(rest, ":", 0)
  IN IF p < 0 THEN [prefix |-> Null, localName |-> name]
     ELSE [prefix |-> SliceTo(name, 0, p),
           localName |-> IF q < 0 THEN rest ELSE SliceTo(rest, 0, q)]

\* XmlElement.addAttr(key, value, false): the attribute map with the entry added.
addAttr(attrs, key, value) ==
  LET n == parseName(key)
  IN IF n.prefix = Null
     THEN MapPut(attrs, [key |-> n.localName, localName |-> n.localName,
                         localNamespacePrefix |-> Null, namespace |-> Null,
                         value |-> value])
     ELSE MapPut(attrs, [key |-> n.prefix \o ":" \o n.localName, localName |-> n.localName,
                         localNamespacePrefix |-> n.prefix, namespace |-> Undefined,
                         value |-> value])

\* The constructor's loop over the given attributes: xmlns and xmlns:p go to
\* namespaceDefs, the others to attrs.
RECURSIVE constructAttrs(_, _, _)
constructAttrs(given, k, acc) ==
  IF k > Len(given) THEN acc
  ELSE LET key == given[k].key
           value == given[k].value
       IN constructAttrs(given, k + 1,
            IF key = "xmlns"
            THEN [acc EXCEPT !.namespaceDefs = MapPut(@, [key |-> "", value |-> value])]
            ELSE IF StartsWith(key, "xmlns:")
            THEN [acc EXCEPT !.namespaceDefs = MapPut(@, [key |-> Slice(key, 6), value |-> value])]
            ELSE [acc EXCEPT !.attrs = addAttr(@, key, value)])

\* new XmlElement(document, name, attrs, children) allocated in the heap:
\* [heap, id].  Every element among children gets the new element as parent.
XmlElement(heap, name, attrs, children) ==
  LET id == Len(heap) + 1
      a == constructAttrs(attrs, 1, [namespaceDefs |-> << >>, attrs |-> << >>])
      n == parseName(name)
      el == [parent |-> 0, localName |-> n.localName, localNamespacePrefix |-> n.prefix,
             namespace |-> Undefined, namespaceDefs |-> a.namespaceDefs,
             attrs |-> a.attrs, children |-> children]
      kids == {children[k].id : k \in {j \in 1..Len(children) : IsElem(children[j])}}
  IN [heap |-> [i \in 1..id |-> IF i = id THEN el
                                ELSE IF i \in kids THEN [heap[i] EXCEPT !.parent = id]
                                ELSE heap[i]],
      id |-> id]

localFullname(el) ==
  (IF el.localNamespacePrefix # Null THEN el.localNamespacePrefix \o ":" ELSE "") \o el.localName

\* A lookup that goes from the element straight to the document.
lookupNamespaceSkippingAncestors(document, heap, id, prefix) ==
  LET key == IF prefix = Null THEN "" ELSE prefix
      el == heap[id]
  IN IF MapHas(el.namespaceDefs, key)
     THEN [ok |-> TRUE, ns |-> el.namespaceDefs[MapIndex(el.namespaceDefs, key)].value]
     ELSE IF MapHas(document.namespaceDefs, key)
     THEN [ok |-> TRUE, ns |-> document.namespaceDefs[MapIndex(document.namespaceDefs, key)].value]
     ELSE IF document.allowUnknownNamespacePrefixes THEN [ok |-> TRUE, ns |-> ""]
     ELSE [ok |-> FALSE, ns |-> key]

\* XmlElement.lookupNamespace: [ok, ns]; ok is false where the source throws.
RECURSIVE lookupNamespace(_, _, _, _)
lookupNamespace(document, heap, id, prefix) ==
  LET key == IF prefix = Null THEN "" ELSE prefix
      el == heap[id]
  IN IF MapHas(el.namespaceDefs, key)
     THEN [ok |-> TRUE, ns |-> el.namespaceDefs[MapIndex(el.namespaceDefs, key)].value]
     ELSE IF el.parent # 0 THEN lookupNamespace(document, heap, el.parent, prefix)
     ELSE IF MapHas(document.namespaceDefs, key)
     THEN [ok |-> TRUE, ns |-> document.namespaceDefs[MapIndex(document.namespaceDefs, key)].value]
     ELSE IF document.allowUnknownNamespacePrefixes THEN [ok |-> TRUE, ns |-> ""]
     ELSE [ok |-> FALSE, ns |-> key]

UnknownPrefix(prefix) == Error("Error", "Unknown namespace prefix '" \o prefix \o "'", 0)

\* One turn of applyNamespaces' loop over the attributes: an attribute whose
\* namespace is undefined is deleted and put back under
\* "<namespace>|<localName>".
applyAttrNamespace(document, heap, id, entry) ==
  LET Looked(r) ==
        LET attr == [entry EXCEPT !.namespace = r.ns, !.key = r.ns \o "|" \o entry.localName]
            deleted == MapDelete(heap[id].attrs, entry.key)
        IN IF ~r.ok
           THEN [heap |-> [heap EXCEPT ![id].attrs = deleted], error |-> UnknownPrefix(r.ns)]
           ELSE [heap |-> [heap EXCEPT ![id].attrs = MapPut(deleted, attr)],
                 error |-> NoError]
  IN IF entry.namespace # Undefined THEN [heap |-> heap, error |-> NoError]
     ELSE Looked(lookupNamespace(document, heap, id, entry.localNamespacePrefix))

\* The loop over the attributes, from the k-th entry on; r is [heap, error].
RECURSIVE applyAttrNamespaces(_, _, _, _, _)
applyAttrNamespaces(document, r, id, entries, k) ==
  IF r.error.kind # "none" \/ k > Len(entries) THEN r
  ELSE applyAttrNamespaces(document,
                           applyAttrNamespace(document, r.heap, id, entries[k]),
                           id, entries, k + 1)

\* The element's own part of applyNamespaces, after its children's.
applyOwnNamespaces(document, heap, id) ==
  LET Looked(r) ==
        IF ~r.ok THEN [heap |-> heap, error |-> UnknownPrefix(r.ns)]
        ELSE applyAttrNamespaces(document,
                                 [heap |-> [heap EXCEPT ![id].namespace = r.ns],
                                  error |-> NoError],
                                 id, heap[id].attrs, 1)
  IN Looked(IF heap[id].namespace = Undefined
            THEN lookupNamespace(document, heap, id, heap[id].localNamespacePrefix)
            ELSE [ok |-> TRUE, ns |-> heap[id].namespace])

\* XmlElement.applyNamespaces, with its loop over the children from the k-th
\* on; r is [heap, error], the error being what the source throws.
RECURSIVE applyNamespaces(_, _, _, _)
applyNamespaces(document, r, id, k) ==
  IF r.error.kind # "none" THEN r
  ELSE IF k > Len(r.heap[id].children) THEN applyOwnNamespaces(document, r.heap, id)
  ELSE applyNamespaces(document,
                       IF IsElem(r.heap[id].children[k])
                       THEN applyNamespaces(document, r, r.heap[id].children[k].id, 1)
                       ELSE r,
                       id, k + 1)

----------------------------------------------------------------------------
(* StreamerState and XmlStreamerContext.                                    *)
(* A context is the record [document, ignoreDefaultTags, beforeProcess,    *)
(* bufferedString, postponedString, isInEsiComment, children,              *)
(* openElements, heap, closed, error]; closed is the set of the elements   *)
(* whose end the recognizer has consumed (a self-closing tag, or the       *)
(* matching close tag), kept for the statements about dispatch.            *)

XmlStreamerContext(document, ignoreDefaultTags, beforeProcess) ==
  [document |-> document, ignoreDefaultTags |-> ignoreDefaultTags,
   beforeProcess |-> beforeProcess,
   bufferedString |-> "", postponedString |-> Undefined, isInEsiComment |-> FALSE,
   children |-> << >>, openElements |-> << >>, heap |-> << >>, closed |-> {},
   error |-> NoError]

\* StreamerState.applyPostponedXmlString
applyPostponedXmlString(ctx) ==
  IF ctx.postponedString # Undefined
  THEN [ctx EXCEPT !.bufferedString = @ \o ctx.postponedString,
                   !.postponedString = Undefined]
  ELSE ctx

\* StreamerState.append
streamerStateAppend(ctx, str) ==
  [applyPostponedXmlString(ctx) EXCEPT !.bufferedString = @ \o str]

addStringSegment(segments, seg) ==
  IF seg = "" THEN segments
  ELSE IF Len(segments) > 0 /\ ~IsElem(segments[Len(segments)])
  THEN [segments EXCEPT ![Len(segments)] = TextNode(@.s \o seg)]
  ELSE Append(segments, TextNode(seg))

topOpenElement(ctx) ==
  IF Len(ctx.openElements) > 0 THEN ctx.openElements[Len(ctx.openElements)] ELSE 0

\* The children list the context is adding to, after adding node to it.
pushChild(ctx, node) ==
  LET top == topOpenElement(ctx)
  IN IF top # 0 THEN [ctx EXCEPT !.heap[top].children = Append(@, node)]
     ELSE [ctx EXCEPT !.children = Append(@, node)]

pushText(ctx, str) ==
  LET top == topOpenElement(ctx)
  IN IF top # 0 THEN [ctx EXCEPT !.heap[top].children = addStringSegment(@, str)]
     ELSE [ctx EXCEPT !.children = addStringSegment(@, str)]

\* XmlStreamerContext.applyNamespaces: the root children, from the k-th on.
RECURSIVE contextApplyNamespaces(_, _)
contextApplyNamespaces(ctx, k) ==
  LET Applied(r) == [ctx EXCEPT !.heap = r.heap, !.error = r.error]
  IN IF ctx.error.kind # "none" \/ k > Len(ctx.children) THEN ctx
     ELSE contextApplyNamespaces(
            IF IsElem(ctx.children[k])
            THEN Applied(applyNamespaces(ctx.document, [heap |-> ctx.heap, error |-> NoError],
                                         ctx.children[k].id, 1))
            ELSE ctx,
            k + 1)

\* What a turn of the while(true) loop of XmlStreamerContext.process leaves:
\* the context, and whether the loop goes on.
Continue(ctx) == [ctx |-> ctx, more |-> TRUE]
Break(ctx) == [ctx |-> ctx, more |-> FALSE]

\* A turn of that loop whose close tag pops whatever element is on top.
processParsedPoppingAny(ctx, parseResult) ==
  LET c1 == [ctx EXCEPT !.bufferedString = parseResult.remainingXmlString]
      top == topOpenElement(ctx)
      Pushed(n) ==
        LET c2 == pushChild([c1 EXCEPT !.heap = [n.heap EXCEPT ![n.id].parent = top]],
                            ElemNode(n.id))
        IN Continue(IF parseResult.type = "element-open"
                    THEN [c2 EXCEPT !.openElements = Append(@, n.id)]
                    ELSE [c2 EXCEPT !.closed = @ \cup {n.id}])
  IN CASE parseResult.type = "unknown" -> Break(c1)
       [] parseResult.type = "text" -> Continue(pushText(c1, parseResult.content))
       [] parseResult.type \in {"element-self-close", "element-open"} ->
            Pushed(XmlElement(c1.heap, parseResult.localFullname, parseResult.attrs, << >>))
       [] parseResult.type = "element-close" ->
            IF top = 0
            THEN Break([c1 EXCEPT !.error = Error("Error", "closing-empty-stack", 0)])
            ELSE Continue([c1 EXCEPT !.openElements = SubSeq(@, 1, Len(@) - 1),
                                     !.closed = @ \cup {top}])

\* One turn of that loop, for the parseResult of the buffered string.
processParsed(ctx, parseResult) ==
  LET c1 == [ctx EXCEPT !.bufferedString = parseResult.remainingXmlString]
      top == topOpenElement(ctx)
      Pushed(n) ==
        LET c2 == pushChild([c1 EXCEPT !.heap = [n.heap EXCEPT ![n.id].parent = top]],
                            ElemNode(n.id))
        IN Continue(IF parseResult.type = "element-open"
                    THEN [c2 EXCEPT !.openElements = Append(@, n.id)]
                    ELSE [c2 EXCEPT !.closed = @ \cup {n.id}])
  IN CASE parseResult.type = "unknown" -> Break(c1)
       [] parseResult.type = "text" -> Continue(pushText(c1, parseResult.content))
       [] parseResult.type \in {"element-self-close", "element-open"} ->
            Pushed(XmlElement(c1.heap, parseResult.localFullname, parseResult.attrs, << >>))
       [] parseResult.type = "element-close" ->
            IF top = 0
            THEN Break([c1 EXCEPT !.error = Error("Error", "closing-empty-stack", 0)])
            ELSE IF localFullname(ctx.heap[top]) # parseResult.localFullname
            THEN Break([c1 EXCEPT !.error = Error("Error", "closing-unmatched", 0)])
            ELSE Continue([c1 EXCEPT !.openElements = SubSeq(@, 1, Len(@) - 1),
                                     !.closed = @ \cup {top}])

\* One turn of that loop.
processStep(ctx) ==
  IF ctx.bufferedString = "" THEN Break(ctx)
  ELSE processParsed(ctx, parseXmlStringChunk(ctx.bufferedString, ctx.ignoreDefaultTags))

\* The while(true) loop of XmlStreamerContext.process, from the turn that
\* left s on.
RECURSIVE processLoop(_)
processLoop(s) == IF s.more THEN processLoop(processStep(s.ctx)) ELSE s.ctx

\* XmlStreamerContext.process, after applyPostponedXmlString has left c1 and
\* the beforeProcess hook hk.
processHooked(ctx, c1, hk) ==
  contextApplyNamespaces(
    processLoop(Continue(IF ctx.beforeProcess
                         THEN [c1 EXCEPT !.bufferedString = hk.bufferedString,
                                         !.postponedString = hk.postponedString,
                                         !.isInEsiComment = hk.isInEsiComment]
                         ELSE c1)), 1)

\* XmlStreamerContext.process
process(ctx) ==
  processHooked(ctx, applyPostponedXmlString(ctx),
                xmlStreamerBeforeProcess(applyPostponedXmlString(ctx).bufferedString,
                                         ctx.isInEsiComment))

\* XmlStreamerContext.append
append(ctx, xmlString) == process(streamerStateAppend(ctx, xmlString))

\* A flush that leaves the open elements open.
flushKeepingOpen(ctx, force) ==
  LET c1 == applyPostponedXmlString(ctx)
      c2 == IF c1.bufferedString # ""
            THEN [pushText(c1, c1.bufferedString) EXCEPT !.bufferedString = "",
                                                         !.postponedString = Undefined]
            ELSE c1
  IN c2

\* XmlStreamerContext.flush(force)
flush(ctx, force) ==
  LET c1 == applyPostponedXmlString(ctx)
      c2 == IF c1.bufferedString # ""
            THEN [pushText(c1, c1.bufferedString) EXCEPT !.bufferedString = "",
                                                         !.postponedString = Undefined]
            ELSE c1
  IN IF force THEN [c2 EXCEPT !.openElements = << >>] ELSE c2

----------------------------------------------------------------------------
(* XmlElement serialization *)

\* encodeTokens, in the order of its entries
XmlEncodings == << <<"&", "&amp;">>, <<"<", "&lt;">>, <<">", "&gt;">>,
                   <<"\"", "&quot;">>, <<"'", "&apos;">> >>

\* xmlUtils.xmlEncode
xmlEncode(s) == ReplaceTokens(XmlEncodings, 1, s)

RECURSIVE JoinAttrs(_, _)
JoinAttrs(attrs, k) ==
  IF k > Len(attrs) THEN ""
  ELSE " " \o (IF attrs[k].localNamespacePrefix # Null
               THEN attrs[k].localNamespacePrefix \o ":" ELSE "")
           \o attrs[k].localName \o "=\"" \o xmlEncode(attrs[k].value) \o "\""
           \o JoinAttrs(attrs, k + 1)

RECURSIVE JoinNamespaceDefs(_, _)
JoinNamespaceDefs(defs, k) ==
  IF k > Len(defs) THEN ""
  ELSE " xmlns" \o (IF defs[k].key # "" THEN ":" \o defs[k].key ELSE "")
           \o "=\"" \o xmlEncode(defs[k].value) \o "\""
           \o JoinNamespaceDefs(defs, k + 1)

tagOpen(el) ==
  "<" \o localFullname(el) \o JoinAttrs(el.attrs, 1) \o JoinNamespaceDefs(el.namespaceDefs, 1)
      \o (IF Len(el.children) = 0 THEN " /" ELSE "") \o ">"

\* null for an element without children, rendered as '' by serialize.
tagClose(el) ==
  IF Len(el.children) = 0 THEN "" ELSE "</" \o localFullname(el) \o ">"

\* The instance method XmlElement.serialize, and its loop over the children
\* (k), which ends after the first string child.
RECURSIVE serializeChildren(_, _, _)
serializeElement(heap, id) ==
  tagOpen(heap[id]) \o serializeChildren(heap, id, 1) \o tagClose(heap[id])
serializeChildren(heap, id, k) ==
  LET kids == heap[id].children
  IN IF k > Len(kids) THEN ""
     ELSE IF ~IsElem(kids[k]) THEN kids[k].s
     ELSE serializeElement(heap, kids[k].id) \o serializeChildren(heap, id, k + 1)

\* A value a transform returns: undefined, null, one node, or a list of nodes.
RUndefined == [k |-> "undefined", node |-> TextNode(""), list |-> << >>]
RNull == [k |-> "null", node |-> TextNode(""), list |-> << >>]
RNode(node) == [k |-> "node", node |-> node, list |-> << >>]
RList(list) == [k |-> "list", node |-> TextNode(""), list |-> list]

\* The static XmlElement.serialize(el), el a node, and its map over the
\* children of a _replace element.
RECURSIVE serializeNode(_, _), serializeNodes(_, _, _)
serializeNode(heap, node) ==
  IF ~IsElem(node) THEN node.s
  ELSE IF heap[node.id].localName = "_replace"
  THEN serializeNodes(heap, heap[node.id].children, 1)
  ELSE serializeElement(heap, node.id)
serializeNodes(heap, nodes, k) ==
  IF k > Len(nodes) THEN ""
  ELSE serializeNode(heap, nodes[k]) \o serializeNodes(heap, nodes, k + 1)

serialize(heap, result) ==
  IF result.k = "null" THEN "" ELSE serializeNode(heap, result.node)

----------------------------------------------------------------------------
(* util.quoteString / unquoteString and EsiVariables *)

quoteString(input) == "'" \o ReplaceAll(input, "'", "\\'") \o "'"

\* [ok, value]; ok is false where unquoteString throws.
unquoteString(input) ==
  LET str == SliceTo(input, 1, Len(input) - 1)
      bad == \E p \in 0..(Len(str) - 1) :
               CharAt(str, p) = "'" /\ (p = 0 \/ CharAt(str, p - 1) # "\\")
  IN IF ~StartsWith(input, "'") \/ ~EndsWith(input, "'") \/ bad
     THEN [ok |-> FALSE, value |-> ""]
     ELSE [ok |-> TRUE, value |-> ReplaceAll(str, "\\'", "'")]

\* s.split(sep)
RECURSIVE Split(_, _)
Split(s, sep) ==
  LET p == IndexOf(s, sep, 0)
  IN IF p < 0 THEN <<s>> ELSE <<SliceTo(s, 0, p)>> \o Split(Slice(s, p + Len(sep)), sep)

\* s.trim()
Trim(s) ==
  LET a == SpanEnd(s, 0, WhiteSpace)
      b == SetMax({0} \cup {j \in 1..Len(s) : CharAt(s, j - 1) \notin WhiteSpace})
  IN IF a >= b THEN "" ELSE SliceTo(s, a, b)

\* decodeURIComponent, for the escapes the headers of the model use.
PercentEscapes == << <<"%20", " ">>, <<"%3D", "=">>, <<"%25", "%">> >>
decodeURIComponent(s) == ReplaceTokens(PercentEscapes, 1, s)

\* The name and the value of a segment name=value: what is before its first
\* "=" and what is after it ("" if it has none).
SegmentName(seg) == IF IndexOf(seg, "=", 0) < 0 THEN seg ELSE SliceTo(seg, 0, IndexOf(seg, "=", 0))
SegmentValue(seg) == IF IndexOf(seg, "=", 0) < 0 THEN "" ELSE Slice(seg, IndexOf(seg, "=", 0) + 1)

\* EsiAcceptLanguageVariable's function: the languages of the header, each
\* mapped to true, from the k-th segment on.
RECURSIVE acceptLanguageMap(_, _, _)
acceptLanguageMap(segs, k, map) ==
  LET lang == Trim(Split(segs[k], ";")[1])
  IN IF k > Len(segs) THEN map
     ELSE acceptLanguageMap(segs, k + 1,
                            IF lang = "" THEN map
                            ELSE MapPut(map, [key |-> decodeURIComponent(lang),
                                              value |-> "true"]))

\* EsiCookieVariable's function, from the k-th segment on: a cookie whose
\* trimmed name or value is empty is skipped.
RECURSIVE cookieMap(_, _, _)
cookieMap(segs, k, map) ==
  LET name == Trim(SegmentName(segs[k]))
      value == Trim(SegmentValue(segs[k]))
  IN IF k > Len(segs) THEN map
     ELSE cookieMap(segs, k + 1,
                    IF name = "" \/ value = "" THEN map
                    ELSE MapPut(map, [key |-> decodeURIComponent(name),
                                      value |-> decodeURIComponent(value)]))

\* EsiQueryStringVariable's function, over the pairs of URLSearchParams, from
\* the k-th segment on: an empty segment gives no pair, "+" is a space, and a
\* repeated name keeps its last value.
RECURSIVE queryStringMap(_, _, _)
queryStringMap(segs, k, map) ==
  LET Decode(s) == decodeURIComponent(ReplaceAll(s, "+", " "))
  IN IF k > Len(segs) THEN map
     ELSE queryStringMap(segs, k + 1,
                         IF segs[k] = "" THEN map
                         ELSE MapPut(map, [key |-> Decode(SegmentName(segs[k])),
                                           value |-> Decode(SegmentValue(segs[k]))]))

\* url.search without its leading "?"s.
RECURSIVE StripQuestionMarks(_)
StripQuestionMarks(s) == IF StartsWith(s, "?") THEN StripQuestionMarks(Slice(s, 1)) ELSE s
UrlSearch(u) == IF IndexOf(u, "?", 0) < 0 THEN "" ELSE Slice(u, IndexOf(u, "?", 0))

\* new EsiVariables(url, headers): a map from a variable's name to its kind
\* (an EsiStringVariable, EsiListVariable or EsiDictionaryVariable), its
\* value and the map of its sub-keys.  The headers carry no user-agent.
EsiVariables(url, headers) ==
  LET Header(name) == IF MapHas(headers, name) THEN headers[MapIndex(headers, name)].value
                      ELSE ""
      String(name, header) ==
        IF MapHas(headers, header)
        THEN <<[key |-> name, kind |-> "string", value |-> Header(header), map |-> << >>]>>
        ELSE << >>
  IN <<[key |-> "HTTP_ACCEPT_LANGUAGE", kind |-> "list", value |-> Header("accept-language"),
        map |-> acceptLanguageMap(Split(Header("accept-language"), ","), 1, << >>)],
       [key |-> "HTTP_COOKIE", kind |-> "dictionary", value |-> Header("cookie"),
        map |-> cookieMap(Split(Header("cookie"), ";"), 1, << >>)]>>
     \o String("HTTP_HOST", "host")
     \o String("HTTP_REFERER", "referer")
     \o <<[key |-> "QUERY_STRING", kind |-> "dictionary",
           value |-> StripQuestionMarks(UrlSearch(url)),
           map |-> queryStringMap(Split(StripQuestionMarks(UrlSearch(url)), "&"), 1, << >>)]>>

\* getSubValue(key) of the variable v.
getSubValue(v, key) ==
  CASE v.kind = "string" -> Undefined
    [] v.kind = "list" -> IF MapHas(v.map, key) THEN "true" ELSE "false"
    [] v.kind = "dictionary" ->
         quoteString(IF MapHas(v.map, key) THEN v.map[MapIndex(v.map, key)].value ELSE "")

\* EsiVariables.getValue(name, subKey); getValue() of every kind of variable
\* quotes the value.
varsGetValue(vars, name, subKey) ==
  IF ~MapHas(vars, name) THEN Undefined
  ELSE IF subKey # Null THEN getSubValue(vars[MapIndex(vars, name)], subKey)
  ELSE quoteString(vars[MapIndex(vars, name)].value)

VarNameChar == {"-", "_", "A","B","C","D","E","F","G","H","I","J","K","L","M",
                "N","O","P","Q","R","S","T","U","V","W","X","Y","Z"}
SubKeyChar == Alpha \cup Digit \cup {"-", "_"}

NoVarMatch == [end |-> -1, varName |-> "", subkeyName |-> Null, defaultValue |-> Null]

\* The default value of ESI_VARIABLES_REGEX after the "|" at n2, and the
\* position after the variable's ")": [end, defaultValue], end = -1 for no
\* match.  defaultValue1 is [^\s']+ as far as a ")" still follows it,
\* defaultValue2 is '[^']*'.
MatchEsiDefault(s, n2) ==
  LET e1 == SetMin({j \in (n2 + 1)..Len(s) :
                      j = Len(s) \/ CharAt(s, j) \in WhiteSpace \cup {"'"}})
      c2 == IF n2 + 1 < Len(s) /\ CharAt(s, n2 + 1) = "'" THEN IndexOf(s, "'", n2 + 2) ELSE -1
      Default(ps) ==
        IF ps # {}
        THEN [end |-> SetMax(ps) + 1, defaultValue |-> SliceTo(s, n2 + 1, SetMax(ps))]
        ELSE IF c2 >= 0 /\ c2 + 1 < Len(s) /\ CharAt(s, c2 + 1) = ")"
        THEN [end |-> c2 + 2, defaultValue |-> SliceTo(s, n2 + 2, c2)]
        ELSE [end |-> -1, defaultValue |-> Null]
  IN Default({p \in (n2 + 2)..(e1 - 1) : CharAt(s, p) = ")"})

\* The variable pattern anchored at the "$(" at i, for the class of its
\* name's characters.
MatchVariable(s, i, NameClass) ==
  LET n0 == i + 2
      Groups(n1, n2, sub) ==
        LET Default(d) ==
              IF d.end < 0 THEN NoVarMatch
              ELSE [end |-> d.end, varName |-> SliceTo(s, n0, n1), subkeyName |-> sub,
                    defaultValue |-> d.defaultValue]
        IN IF n2 < Len(s) /\ CharAt(s, n2) = "|" THEN Default(MatchEsiDefault(s, n2))
           ELSE IF n2 < Len(s) /\ CharAt(s, n2) = ")"
           THEN [end |-> n2 + 1, varName |-> SliceTo(s, n0, n1), subkeyName |-> sub,
                 defaultValue |-> Null]
           ELSE NoVarMatch
      SubKey(n1, k1) ==
        IF k1 > n1 + 1 /\ k1 < Len(s) /\ CharAt(s, k1) = "}"
        THEN Groups(n1, k1 + 1, SliceTo(s, n1 + 1, k1))
        ELSE NoVarMatch
      Name(n1) ==
        IF n1 = n0 THEN NoVarMatch
        ELSE IF n1 < Len(s) /\ CharAt(s, n1) = "{"
        THEN SubKey(n1, SpanEnd(s, n1 + 1, SubKeyChar))
        ELSE Groups(n1, n1, Null)
  IN Name(SpanEnd(s, n0, NameClass))

\* ESI_VARIABLES_REGEX anchored at the "$(" at i.
MatchEsiVariable(s, i) == MatchVariable(s, i, VarNameChar)

evaluateEsiVariableValue(groups, vars) ==
  LET value == varsGetValue(vars, groups.varName, groups.subkeyName)
  IN IF value \in {Undefined, "", "false"} /\ groups.defaultValue # Null
     THEN quoteString(groups.defaultValue)
     ELSE value

\* input.replace(ESI_VARIABLES_REGEX, ...): [ok, value], ok false where
\* unquoteString throws.
RECURSIVE replaceEsiVariables(_, _)
replaceEsiVariables(input, vars) ==
  LET p == IndexOf(input, "$(", 0)
      Skip(rest) == [ok |-> rest.ok, value |-> SliceTo(input, 0, p + 1) \o rest.value]
      Replace(by, rest) ==
        [ok |-> by.ok /\ rest.ok, value |-> SliceTo(input, 0, p) \o by.value \o rest.value]
      Unquote(value) ==
        IF value \in {Undefined, "", "true", "false"} THEN [ok |-> TRUE, value |-> ""]
        ELSE unquoteString(value)
      Matched(m) ==
        IF m.end < 0 THEN Skip(replaceEsiVariables(Slice(input, p + 1), vars))
        ELSE Replace(Unquote(evaluateEsiVariableValue(m, vars)),
                     replaceEsiVariables(Slice(input, m.end), vars))
  IN IF p < 0 THEN [ok |-> TRUE, value |-> input]
     ELSE Matched(MatchEsiVariable(input, p))

\* applyEsiVariables(input, vars); an undefined input stays undefined.
applyEsiVariables(input, vars) ==
  IF input = Undefined THEN [ok |-> TRUE, value |-> Undefined]
  ELSE replaceEsiVariables(input, vars)

\* NUMBER_TEST and parseAsNumber: [ok, value], ok false for undefined;
\* parseInt('0' + val, 10) is the number of the leading digits.
RECURSIVE StrToNat(_)
StrToNat(s) ==
  IF s = "" THEN 0
  ELSE StrToNat(SliceTo(s, 0, Len(s) - 1)) * 10
       + IndexOf("0123456789", CharAt(s, Len(s) - 1), 0)

parseAsNumber(val) ==
  LET d == SpanEnd(val, 0, Digit)
      test == IF d > 0
              THEN d = Len(val)
                   \/ (CharAt(val, d) = "." /\ SpanEnd(val, d + 1, Digit) = Len(val))
              ELSE Len(val) > 1 /\ CharAt(val, 0) = "." /\ SpanEnd(val, 1, Digit) = Len(val)
  IN IF test THEN [ok |-> TRUE, value |-> StrToNat(SliceTo(val, 0, d))]
     ELSE [ok |-> FALSE, value |-> 0]

\* evaluateEsiVariable(input, vars), with ESI_VARIABLE_REGEX: [ok, value],
\* ok false where it throws 'invalid variable format'.
evaluateEsiVariable(input, vars) ==
  LET Matched(m) ==
        IF m.end # Len(input) THEN [ok |-> FALSE, value |-> Undefined]
        ELSE [ok |-> TRUE, value |-> evaluateEsiVariableValue(m, vars)]
  IN IF ~StartsWith(input, "$(") THEN [ok |-> FALSE, value |-> Undefined]
     ELSE Matched(MatchEsiVariable(input, 0))

----------------------------------------------------------------------------
(* EsiExpressions: StringLexer, the shunting-yard evaluator and             *)
(* EsiExpressionEvaluator.  A lexer token is [type, text]; an expression    *)
(* value is [type, str, num, bool], of which the field of its type counts.  *)

LineTerminator == {"\n", "\r"}

\* LEXER_TOKEN_DEFS: the token of the first rule that matches at the start of
\* text; type "none" if no rule does.
MatchLexerToken(text) ==
  LET Token(type, end) == [type |-> type, text |-> SliceTo(text, 0, end)]
      ws == SpanEnd(text, 0, WhiteSpace)
      \* /^'.*?[^\\]'/
      quotes == {j \in 2..(Len(text) - 1) :
                   /\ CharAt(text, j) = "'"
                   /\ CharAt(text, j - 1) # "\\"
                   /\ \A i \in 1..(j - 2) : CharAt(text, i) \notin LineTerminator}
      \* /^(\d+|(\d*\.\d+))/
      digits == SpanEnd(text, 0, Digit)
      fraction == IF CharAt(text, 0) = "." THEN SpanEnd(text, 1, Digit) ELSE 0
      \* /^\$\([-_A-Z0-9]+(\{[-_A-Za-z0-9]+})?(\|(([^\s']+)|('[^']*')))?\)/
      variable == IF StartsWith(text, "$(")
                  THEN MatchVariable(text, 0, VarNameChar \cup Digit).end ELSE -1
  IN IF ws > 0 THEN Token("whitespace", ws)
     ELSE IF CharAt(text, 0) = "'" /\ quotes # {} THEN Token("literalString", SetMin(quotes) + 1)
     ELSE IF digits > 0 THEN Token("literalNumber", digits)
     ELSE IF fraction > 1 THEN Token("literalNumber", fraction)
     ELSE IF StartsWith(text, "true") THEN Token("literalBoolean", 4)
     ELSE IF StartsWith(text, "false") THEN Token("literalBoolean", 5)
     ELSE IF Len(text) > 1 /\ SliceTo(text, 0, 2) \in {"==", "!=", ">=", "<="}
     THEN Token("operator", 2)
     ELSE IF CharAt(text, 0) \in {"(", ")", ">", "<", "!", "&", "|"} THEN Token("operator", 1)
     ELSE IF variable > 0 THEN Token("esiVariable", variable)
     ELSE [type |-> "none", text |-> ""]

\* StringLexer.tokenize
RECURSIVE lexerTokenize(_)
lexerTokenize(text) ==
  LET Matched(m) ==
        IF m.type = "none" THEN lexerTokenize(Slice(text, 1))
        ELSE <<m>> \o lexerTokenize(Slice(text, Len(m.text)))
  IN IF text = "" THEN << >> ELSE Matched(MatchLexerToken(text))

Value(type, str, num, bool) == [type |-> type, str |-> str, num |-> num, bool |-> bool]

\* The switch of EsiExpressionEvaluator.tokenize for one lexer token:
\* [ok, value, error].
expressionValue(token, vars) ==
  LET Ok(v) == [ok |-> TRUE, value |-> v, error |-> NoError]
      Thrown(message) ==
        [ok |-> FALSE, value |-> Value("undefined", "", 0, FALSE),
         error |-> Error("Error", message, 0)]
      Unquoted(u) ==
        IF u.ok THEN Ok(Value("string", u.value, 0, FALSE))
        ELSE Thrown("unquoteString input should not contain unescaped single quotes")
      Resolved(value) ==
        IF value = Undefined THEN Ok(Value("undefined", "", 0, FALSE))
        ELSE IF parseAsNumber(value).ok
        THEN Ok(Value("number", "", parseAsNumber(value).value, FALSE))
        ELSE IF value \in {"true", "false"} THEN Ok(Value("boolean", "", 0, value = "true"))
        ELSE IF unquoteString(value).ok
        THEN Ok(Value("string", unquoteString(value).value, 0, FALSE))
        ELSE Ok(Value("undefined", "", 0, FALSE))
      Variable(v) == IF v.ok THEN Resolved(v.value) ELSE Thrown("invalid variable format")
  IN CASE token.type = "literalString" -> Unquoted(unquoteString(token.text))
       [] token.type = "literalNumber" ->
            Ok(Value("number", "", parseAsNumber(token.text).value, FALSE))
       [] token.type = "literalBoolean" -> Ok(Value("boolean", "", 0, token.text = "true"))
       [] token.type = "operator" ->
            Ok(CASE token.text = "(" -> Value("openParen", "", 0, FALSE)
                 [] token.text = ")" -> Value("closeParen", "", 0, FALSE)
                 [] OTHER -> Value("operator", token.text, 0, FALSE))
       [] token.type = "esiVariable" -> Variable(evaluateEsiVariable(token.text, vars))

\* EsiExpressionEvaluator.tokenize over the lexer's tokens from the k-th on:
\* [ok, values, error].
RECURSIVE tokenizeFrom(_, _, _, _)
tokenizeFrom(tokens, k, values, vars) ==
  LET Pushed(v) ==
        IF ~v.ok THEN [ok |-> FALSE, values |-> values, error |-> v.error]
        ELSE tokenizeFrom(tokens, k + 1, Append(values, v.value), vars)
  IN IF k > Len(tokens) THEN [ok |-> TRUE, values |-> values, error |-> NoError]
     ELSE IF tokens[k].type = "whitespace" THEN tokenizeFrom(tokens, k + 1, values, vars)
     ELSE Pushed(expressionValue(tokens[k], vars))

tokenize(expression, vars) == tokenizeFrom(lexerTokenize(expression), 1, << >>, vars)

\* A table in which & binds no tighter than |.
ParserTableOfEqualLogic(op) ==
  CASE op \in {"==", "!=", "<=", ">=", "<", ">"} -> [precedence |-> 4, associativity |-> "left"]
    [] op = "!" -> [precedence |-> 3, associativity |-> "right"]
    [] op \in {"&", "|"} -> [precedence |-> 1, associativity |-> "left"]

\* PARSER_TABLE
ParserTable(op) ==
  CASE op \in {"==", "!=", "<=", ">=", "<", ">"} -> [precedence |-> 4, associativity |-> "left"]
    [] op = "!" -> [precedence |-> 3, associativity |-> "right"]
    [] op = "&" -> [precedence |-> 2, associativity |-> "left"]
    [] op = "|" -> [precedence |-> 1, associativity |-> "left"]

\* The characters of the strings that are compared, in the order of their
\* UTF-16 code units.
CodeUnits == " -.0123456789ABCDEFGHIJKLMNOPQRSTUVWXYZ_abcdefghijklmnopqrstuvwxyz"

RECURSIVE StringLess(_, _)
StringLess(a, b) ==
  IF b = "" THEN FALSE
  ELSE IF a = "" THEN TRUE
  ELSE IF CharAt(a, 0) = CharAt(b, 0) THEN StringLess(Slice(a, 1), Slice(b, 1))
  ELSE IndexOf(CodeUnits, CharAt(a, 0), 0) < IndexOf(CodeUnits, CharAt(b, 0), 0)

\* A comparison that takes two numbers by their textual forms.
comparisonOpOfTexts(op, numeric, a, b) ==
  LET texts == IF numeric THEN <<ToString(a.num), ToString(b.num)>> ELSE <<a.str, b.str>>
      less == StringLess(texts[1], texts[2])
      equal == texts[1] = texts[2]
  IN CASE op = "==" -> equal
       [] op = "!=" -> ~equal
       [] op = "<=" -> less \/ equal
       [] op = ">=" -> ~less
       [] op = "<" -> less
       [] op = ">" -> ~less /\ ~equal

\* COMPARISON_OPS on two numbers or on two strings.
comparisonOp(op, numeric, a, b) ==
  LET less == IF numeric THEN a.num < b.num ELSE StringLess(a.str, b.str)
      equal == IF numeric THEN a.num = b.num ELSE a.str = b.str
  IN CASE op = "==" -> equal
       [] op = "!=" -> ~equal
       [] op = "<=" -> less \/ equal
       [] op = ">=" -> ~less
       [] op = "<" -> less
       [] op = ">" -> ~less /\ ~equal

\* String(value) of a number or a string value.
AsString(v) == IF v.type = "number" THEN Value("string", ToString(v.num), 0, FALSE) ELSE v

\* An onPop whose comparison with an undefined operand is undefined.
onPopUndefinedOnUndefined(token, output) ==
  LET n == Len(output)
      Push(rest, known, bool) ==
        [ok |-> TRUE, error |-> NoError,
         output |-> Append(rest, IF known THEN Value("boolean", "", 0, bool)
                                 ELSE Value("undefined", "", 0, FALSE))]
      TypeError ==
        [ok |-> FALSE, output |-> output,
         error |-> Error("TypeError", "Cannot read properties of undefined (reading 'type')", 0)]
      right == output[n]
      left == output[n - 1]
      rest == SubSeq(output, 1, n - 2)
      types == <<left.type, right.type>>
  IN IF n = 0 THEN TypeError
     ELSE IF token.str = "!"
     THEN Push(SubSeq(output, 1, n - 1), right.type = "boolean", ~right.bool)
     ELSE IF n = 1 THEN TypeError
     ELSE IF token.str \in {"&", "|"}
     THEN Push(rest, types = <<"boolean", "boolean">>,
               IF token.str = "&" THEN left.bool /\ right.bool ELSE left.bool \/ right.bool)
     ELSE IF "undefined" \in {left.type, right.type} THEN Push(rest, FALSE, FALSE)
     ELSE IF types = <<"number", "number">>
     THEN Push(rest, TRUE, comparisonOp(token.str, TRUE, left, right))
     ELSE IF types \in {<<"number", "string">>, <<"string", "number">>, <<"string", "string">>}
     THEN Push(rest, TRUE, comparisonOp(token.str, FALSE, AsString(left), AsString(right)))
     ELSE Push(rest, FALSE, FALSE)

\* onPop(token, output) and the output.push(result) that follows it:
\* [ok, output, error], ok false where reading an operand that is not there
\* throws a TypeError.
onPop(token, output) ==
  LET n == Len(output)
      Push(rest, known, bool) ==
        [ok |-> TRUE, error |-> NoError,
         output |-> Append(rest, IF known THEN Value("boolean", "", 0, bool)
                                 ELSE Value("undefined", "", 0, FALSE))]
      TypeError ==
        [ok |-> FALSE, output |-> output,
         error |-> Error("TypeError", "Cannot read properties of undefined (reading 'type')", 0)]
      right == output[n]
      left == output[n - 1]
      rest == SubSeq(output, 1, n - 2)
      types == <<left.type, right.type>>
  IN IF n = 0 THEN TypeError
     ELSE IF token.str = "!"
     THEN Push(SubSeq(output, 1, n - 1), right.type = "boolean", ~right.bool)
     ELSE IF n = 1 THEN TypeError
     ELSE IF token.str \in {"&", "|"}
     THEN Push(rest, types = <<"boolean", "boolean">>,
               IF token.str = "&" THEN left.bool /\ right.bool ELSE left.bool \/ right.bool)
     ELSE IF "undefined" \in {left.type, right.type} THEN Push(rest, TRUE, FALSE)
     ELSE IF types = <<"number", "number">>
     THEN Push(rest, TRUE, comparisonOp(token.str, TRUE, left, right))
     ELSE IF types \in {<<"number", "string">>, <<"string", "number">>, <<"string", "string">>}
     THEN Push(rest, TRUE, comparisonOp(token.str, FALSE, AsString(left), AsString(right)))
     ELSE Push(rest, FALSE, FALSE)

\* A state of evaluateTokens: the output, the stack and what was thrown.
Mismatched(S) == [S EXCEPT !.ok = FALSE, !.error = Error("Error", "Mismatched parentheses.", 0)]

\* stack.pop() of an operator, onPop and output.push(result).
popOperator(S) ==
  LET Popped(r) ==
        [ok |-> r.ok, error |-> r.error, output |-> r.output,
         stack |-> SubSeq(S.stack, 1, Len(S.stack) - 1)]
  IN Popped(onPop(S.stack[Len(S.stack)], S.output))

\* The while loop of the close-parenthesis case.
RECURSIVE closeParen(_)
closeParen(S) ==
  IF ~S.ok THEN S
  ELSE IF S.stack = << >> THEN Mismatched(S)
  ELSE IF S.stack[Len(S.stack)].type = "openParen"
  THEN [S EXCEPT !.stack = SubSeq(@, 1, Len(@) - 1)]
  ELSE closeParen(popOperator(S))

\* The while loop of the operator case, then stack.push(token).
RECURSIVE pushOperator(_, _)
pushOperator(S, token) ==
  LET top == S.stack[Len(S.stack)]
      o1 == ParserTable(token.str)
      o2 == ParserTable(top.str)
  IN IF ~S.ok THEN S
     ELSE IF \/ S.stack = << >>
             \/ top.type = "openParen"
             \/ o1.precedence > o2.precedence
             \/ (o1.precedence = o2.precedence /\ o1.associativity = "right")
     THEN [S EXCEPT !.stack = Append(@, token)]
     ELSE pushOperator(popOperator(S), token)

\* The final while loop.
RECURSIVE popAll(_)
popAll(S) ==
  IF ~S.ok \/ S.stack = << >> THEN S
  ELSE IF S.stack[Len(S.stack)].type = "openParen"
  THEN Mismatched([S EXCEPT !.stack = SubSeq(@, 1, Len(@) - 1)])
  ELSE popAll(popOperator(S))

\* ExpressionEvaluatorBase.evaluateTokens, from the k-th token on.
RECURSIVE evaluateTokensFrom(_, _, _)
evaluateTokensFrom(tokens, k, S) ==
  IF ~S.ok THEN S
  ELSE IF k > Len(tokens) THEN popAll(S)
  ELSE evaluateTokensFrom(
         tokens, k + 1,
         CASE tokens[k].type = "openParen" -> [S EXCEPT !.stack = Append(@, tokens[k])]
           [] tokens[k].type = "closeParen" -> closeParen(S)
           [] tokens[k].type = "operator" -> pushOperator(S, tokens[k])
           [] OTHER -> [S EXCEPT !.output = Append(@, tokens[k])])

evaluateTokens(tokens) ==
  evaluateTokensFrom(tokens, 1, [ok |-> TRUE, error |-> NoError, output |-> << >>,
                                 stack |-> << >>])

\* EsiExpressionEvaluator.evaluate: [ok, value, error], ok false where it
\* throws.
evaluate(expression, vars) ==
  LET Thrown(error) == [ok |-> FALSE, value |-> FALSE, error |-> error]
      Evaluated(S) ==
        IF ~S.ok THEN Thrown(S.error)
        ELSE IF Len(S.output) > 1 THEN [ok |-> TRUE, value |-> FALSE, error |-> NoError]
        ELSE IF S.output = << >>
        THEN Thrown(Error("TypeError",
                          "Cannot read properties of undefined (reading 'type')", 0))
        ELSE [ok |-> TRUE, error |-> NoError,
              value |-> S.output[1].type = "boolean" /\ S.output[1].bool]
      Tokenized(t) == IF ~t.ok THEN Thrown(t.error) ELSE Evaluated(evaluateTokens(t.values))
  IN Tokenized(tokenize(expression, vars))

----------------------------------------------------------------------------
(* URLs, headers and the host's fetch.                                      *)
(* A URL is its string form, scheme://host/path; a header container is an  *)
(* ordered map.  Hosts are written in lower case, as URL.host gives them.  *)

UrlOrigin(u) ==
  LET a == IndexOf(u, "//", 0) + 2
      p == IndexOf(u, "/", a)
  IN IF p < 0 THEN u ELSE SliceTo(u, 0, p)
UrlHost(u) == Slice(UrlOrigin(u), IndexOf(u, "//", 0) + 2)
UrlScheme(u) == SliceTo(u, 0, IndexOf(u, "//", 0))
UrlDir(u) ==
  IF Len(UrlOrigin(u)) = Len(u) THEN u \o "/" ELSE SliceTo(u, 0, LastIndexOf(u, "/") + 1)

\* new URL(src, base)
NewURL(src, base) ==
  IF IndexOf(src, "://", 0) > 0 THEN src
  ELSE IF StartsWith(src, "//") THEN UrlScheme(base) \o src
  ELSE IF StartsWith(src, "/") THEN UrlOrigin(base) \o src
  ELSE UrlDir(base) \o src

\* fetch(String(url), init) of an include: the request, with the element it
\* is issued for and the depth of the transformer issuing it.
Request(url, headers, el, depth) ==
  [url |-> url, method |-> "GET", headers |-> headers, el |-> el, depth |-> depth]

\* A response of the host's fetch: a status and a body (Null for no body).
Response(status, body) == [status |-> status, body |-> body]

----------------------------------------------------------------------------
(* EsiTransformer.                                                          *)
(* An EsiTransformer is the record opts = [url, headers, depth, vars,       *)
(* handleIncludeError, processIncludeResponse, esiPrefix]:                  *)
(* handleIncludeError is "none" for no handler, "ignore" for a handler that *)
(* sets nothing and "custom" for one that sets customErrorString;           *)
(* processIncludeResponse is "none" for no callback and "esi" for the       *)
(* default callback of EsiTransformStream.                                  *)
(*                                                                         *)
(* transformElementNode is an async function; its run is replayed from the *)
(* responses received so far.  A run is the record T with the fields        *)
(*   heap, applyVars   the elements and the transformer's applyVars,        *)
(*   resps, nresp, res the responses the run's fetches have received, how   *)
(*                     many the replay has consumed, and the last of them,  *)
(*   reqs, events      the requests issued, the handleIncludeError events,  *)
(*   status, error     "ok", "error" (error is thrown) or "blocked" (the    *)
(*                     function is suspended at the await of its last      *)
(*                     request),                                            *)
(*   result            the value returned,                                  *)
(*   out, log, rest    of the dispatch loop the run belongs to: the chunks  *)
(*                     enqueued, the nodes dispatched, the children left,   *)
(*   cur, base, mark   the node being dispatched, with the heap and the     *)
(*                     lengths of resps, reqs and events as they were when  *)
(*                     its dispatch began.                                  *)

NoNode == [t |-> "none", s |-> "", id |-> 0]

NewRun(heap, resps) ==
  [heap |-> heap, applyVars |-> FALSE, resps |-> resps, nresp |-> 0, reqs |-> << >>,
   res |-> Response(0, Null), events |-> << >>, status |-> "ok", error |-> NoError,
   result |-> RUndefined, out |-> << >>, log |-> << >>, rest |-> << >>,
   cur |-> NoNode, base |-> heap, mark |-> [nresp |-> 0, reqs |-> 0, events |-> 0]]

Throw(T, error) == [T EXCEPT !.status = "error", !.error = error, !.result = RUndefined]
Return(T, result) == [T EXCEPT !.result = result]

CustomErrorString == "E"

\* A handleIncludeError whose customErrorString is not read back.
handlerResultDropped(handler, event) == event.customErrorString

\* options.handleIncludeError(event): the customErrorString the handler leaves.
handleIncludeError(handler, event) ==
  IF handler = "custom" THEN CustomErrorString ELSE event.customErrorString

\* A fetch that is issued and not awaited: the function goes on at once, with
\* an empty successful response in the place of the one to come.
fetchWithoutAwait(T, request) ==
  [T EXCEPT !.reqs = Append(@, request), !.res = Response(200, "")]

\* await fetch(String(url), init): the request is issued and the function
\* waits for its response, which is then T.res.
awaitFetch(T, request) ==
  LET T1 == [T EXCEPT !.reqs = Append(@, request)]
  IN IF T1.nresp < Len(T1.resps)
     THEN [T1 EXCEPT !.nresp = @ + 1, !.res = T1.resps[T1.nresp + 1]]
     ELSE [T1 EXCEPT !.status = "blocked"]

attrValue(el, key) ==
  IF MapHas(el.attrs, key) THEN el.attrs[MapIndex(el.attrs, key)].value ELSE Undefined

\* The direct children of el that are ESI elements named localName.
esiChildTags(heap, id, localName) ==
  LET kids == heap[id].children
  IN {k \in 1..Len(kids) : /\ IsElem(kids[k])
                           /\ heap[kids[k].id].namespace = EsiNamespace
                           /\ heap[kids[k].id].localName = localName}

\* A test of the prefix that lets the empty string through.
ValidPrefixOrEmpty(esiPrefix) ==
  \/ esiPrefix = ""
  \/ /\ CharAt(esiPrefix, 0) \in Alpha
     /\ SpanEnd(esiPrefix, 1, NameChar) = Len(esiPrefix)

\* /^[a-zA-Z][-a-zA-Z0-9]*$/.test(esiPrefix)
ValidPrefix(esiPrefix) ==
  /\ esiPrefix # ""
  /\ CharAt(esiPrefix, 0) \in Alpha
  /\ SpanEnd(esiPrefix, 1, NameChar) = Len(esiPrefix)

\* new EsiTransformStream(...)'s document, from the esiPrefix option.
esiDocument(esiPrefix) ==
  IF esiPrefix = Null THEN XmlDocument(<< >>)
  ELSE XmlDocument(<<[key |-> IF esiPrefix = Undefined THEN "esi" ELSE esiPrefix,
                      value |-> EsiNamespace]>>)

RECURSIVE Concat(_)
Concat(chunks) == IF chunks = << >> THEN "" ELSE Head(chunks) \o Concat(Tail(chunks))

RECURSIVE transformElementNode(_, _, _), applyTransform(_, _, _),
          walkXmlElementWorker(_, _, _, _, _, _), walkChildren(_, _, _, _, _),
          transformFunc(_, _, _), transformChildElements(_, _, _, _, _),
          transformInclude(_, _, _), includeLoop(_, _, _, _, _),
          includeFetched(_, _, _, _, _, _, _), processIncludeResponse(_, _, _, _, _),
          transformTry(_, _, _), transformVars(_, _, _),
          chooseBranch(_, _, _, _), transformChoose(_, _, _),
          dispatchChild(_, _, _), dispatchAll(_, _, _)

\* The results of transformChildElements after the result of one more child:
\* null and undefined are skipped, a _replace element gives its children.
pushResult(R, results) ==
  LET r == R.result
  IN IF r.k \in {"null", "undefined"} THEN results
     ELSE IF IsElem(r.node) /\ R.heap[r.node.id].localName = "_replace"
     THEN results \o R.heap[r.node.id].children
     ELSE Append(results, r.node)

\* async transformChildElements(el): the loop from the k-th child on, with
\* the results so far; T is the run the loop has reached.
transformChildElements(opts, T, id, k, results) ==
  IF T.status # "ok" THEN T
  ELSE IF k > Len(T.heap[id].children) THEN Return(T, RList(results))
  ELSE LET Child(R) == transformChildElements(opts, R, id, k + 1, pushResult(R, results))
       IN Child(transformElementNode(opts, T, T.heap[id].children[k]))

\* A transformElementNode that substitutes the variables of every string.
transformEveryString(opts, T, node) ==
  IF ~IsElem(node)
  THEN LET Text(v) == IF v.ok THEN Return(T, RNode(TextNode(v.value)))
                      ELSE Throw(T, Error("Error", "unquoteString", 0))
       IN Text(applyEsiVariables(node.s, opts.vars))
  ELSE applyTransform(opts, T, node.id)

\* async transformElementNode(node)
transformElementNode(opts, T, node) ==
  IF ~IsElem(node)
  THEN IF T.applyVars
       THEN LET Text(v) == IF v.ok THEN Return(T, RNode(TextNode(v.value)))
                           ELSE Throw(T, Error("Error", "unquoteString", 0))
            IN Text(applyEsiVariables(node.s, opts.vars))
       ELSE Return(T, RNode(node))
  ELSE applyTransform(opts, T, node.id)

\* What applyTransform(el) returns for the walked temporary root, the
\* element detached again from it.
applyTransformResult(W, rootId, id, prevParent) ==
  LET kids == W.heap[rootId].children
      Replace(rep) == Return([W EXCEPT !.heap = rep.heap], RNode(ElemNode(rep.id)))
      \* finally: detach from the temporary parent
      Finally(R) == IF R.status = "blocked" THEN R
                    ELSE [R EXCEPT !.heap[id].parent = prevParent]
  IN Finally(IF W.status # "ok" THEN W
             ELSE IF Len(kids) > 1 THEN Replace(XmlElement(W.heap, "_replace", << >>, kids))
             ELSE IF Len(kids) = 1 THEN Return(W, RNode(kids[1]))
             ELSE Return(W, RNull))

\* applyTransform(el) once the temporary root is made.
applyTransformUnder(opts, T, id, root) ==
  applyTransformResult(walkXmlElementWorker(opts, [T EXCEPT !.heap = root.heap], << >>,
                                            ElemNode(root.id), 0, 0),
                       root.id, id, T.heap[id].parent)

\* buildTransform(document, fn)'s applyTransform(el), el an element.
applyTransform(opts, T, id) ==
  applyTransformUnder(opts, T, id, XmlElement(T.heap, "_root", << >>, <<ElemNode(id)>>))

\* A pass that leaves the _replace children where they are.
flattenReplaceNever(heap, kids) == kids

\* The children of el with every _replace child replaced by its children.
flattenReplace(heap, kids) ==
  LET flat[k \in 0..Len(kids)] ==
        IF k = 0 THEN << >>
        ELSE IF IsElem(kids[k]) /\ heap[kids[k].id].localName = "_replace"
        THEN flat[k - 1] \o heap[kids[k].id].children
        ELSE Append(flat[k - 1], kids[k])
  IN flat[Len(kids)]

\* walkXmlElements' worker, with buildTransform's before and after callbacks.
\* index is the 1-based place of node in its parent's children.
walkXmlElementWorker(opts, T, stack, node, parent, index) ==
  IF IsElem(node) /\ \E k \in 1..Len(stack) : stack[k] = node.id
  THEN Throw(T, Error("Error", "A cycle was detected", node.id))
  ELSE
    LET Replace(F, rep) ==
          [F EXCEPT !.heap = [rep.heap EXCEPT ![parent].children[index] = ElemNode(rep.id)],
                    !.result = RUndefined]
        Flatten(W) ==
          IF W.status # "ok" THEN W
          ELSE [W EXCEPT !.heap[node.id].children = flattenReplace(W.heap, @)]
        Before(F) ==
          IF F.status # "ok" THEN F
          ELSE IF F.result.k \in {"null", "list"}
          THEN Replace(F, XmlElement(F.heap, "_replace", << >>, F.result.list))
          ELSE IF F.result.k = "node"
          THEN [F EXCEPT !.heap[parent].children[index] = F.result.node,
                         !.result = RUndefined]
          ELSE IF ~IsElem(node) THEN F
          ELSE Flatten(walkChildren(opts, F, Append(stack, node.id), node.id, 1))
    IN Before(IF parent = 0 THEN Return(T, RUndefined) ELSE transformFunc(opts, T, node))

\* The worker's loop over node.children, from the k-th child on; T is the
\* run the loop has reached.
walkChildren(opts, T, stack, id, k) ==
  IF T.status # "ok" \/ k > Len(T.heap[id].children) THEN T
  ELSE walkChildren(opts,
                    walkXmlElementWorker(opts, T, stack, T.heap[id].children[k], id, k),
                    stack, id, k + 1)

\* A callback that leaves an ESI element of unknown name to the walk.
transformFuncOfKnownNames(opts, T, node) ==
  IF ~IsElem(node) \/ T.heap[node.id].namespace # EsiNamespace THEN Return(T, RUndefined)
  ELSE LET id == node.id
           localName == T.heap[node.id].localName
       IN CASE localName = "comment" -> Return(T, RNull)
            [] localName = "remove" -> Return(T, RNull)
            [] localName = "include" -> transformInclude(opts, T, id)
            [] localName = "try" -> transformTry(opts, T, id)
            [] localName = "attempt" ->
                 Throw(T, Error("EsiStructureError",
                                "esi:attempt must be direct child of esi:try", id))
            [] localName = "except" ->
                 Throw(T, Error("EsiStructureError",
                                "esi:except must be direct child of esi:try", id))
            [] localName = "vars" -> transformVars(opts, T, id)
            [] localName = "choose" -> transformChoose(opts, T, id)
            [] localName = "when" ->
                 Throw(T, Error("EsiStructureError",
                                "esi:when must be direct child of esi:choose", id))
            [] localName = "otherwise" ->
                 Throw(T, Error("EsiStructureError",
                                "esi:otherwise must be direct child of esi:choose", id))
            [] OTHER -> Return(T, RUndefined)

\* The callback EsiTransformer passes to buildTransform.
transformFunc(opts, T, node) ==
  IF ~IsElem(node) \/ T.heap[node.id].namespace # EsiNamespace THEN Return(T, RUndefined)
  ELSE LET id == node.id
           localName == T.heap[node.id].localName
       IN CASE localName = "comment" -> Return(T, RNull)
            [] localName = "remove" -> Return(T, RNull)
            [] localName = "include" -> transformInclude(opts, T, id)
            [] localName = "try" -> transformTry(opts, T, id)
            [] localName = "attempt" ->
                 Throw(T, Error("EsiStructureError",
                                "esi:attempt must be direct child of esi:try", id))
            [] localName = "except" ->
                 Throw(T, Error("EsiStructureError",
                                "esi:except must be direct child of esi:try", id))
            [] localName = "vars" -> transformVars(opts, T, id)
            [] localName = "choose" -> transformChoose(opts, T, id)
            [] localName = "when" ->
                 Throw(T, Error("EsiStructureError",
                                "esi:when must be direct child of esi:choose", id))
            [] localName = "otherwise" ->
                 Throw(T, Error("EsiStructureError",
                                "esi:otherwise must be direct child of esi:choose", id))
            [] OTHER ->
                 Throw(T, Error("EsiStructureError", "Unknown esi tag esi:" \o localName, id))

\* A candidate list with alt before src.
includeSrcsAltFirst(opts, T, id, src, alt) ==
  IF ~src.ok \/ ~alt.ok THEN Throw(T, Error("Error", "unquoteString", 0))
  ELSE includeLoop(opts, T, id,
                   (IF alt.value # Undefined THEN <<alt.value>> ELSE << >>) \o
                   (IF src.value # Undefined THEN <<src.value>> ELSE << >>), 1)

\* The esi:include branch: the candidate list from src and alt, then the
\* loop over it.
includeSrcs(opts, T, id, src, alt) ==
  IF ~src.ok \/ ~alt.ok THEN Throw(T, Error("Error", "unquoteString", 0))
  ELSE includeLoop(opts, T, id,
                   (IF src.value # Undefined THEN <<src.value>> ELSE << >>) \o
                   (IF alt.value # Undefined THEN <<alt.value>> ELSE << >>), 1)

transformInclude(opts, T, id) ==
  IF ~MapHas(T.heap[id].attrs, "src")
  THEN Throw(T, Error("TypeError",
                      "Cannot read properties of undefined (reading 'value')", 0))
  ELSE includeSrcs(opts, T, id,
                   applyEsiVariables(attrValue(T.heap[id], "src"), opts.vars),
                   applyEsiVariables(attrValue(T.heap[id], "alt"), opts.vars))

\* new Headers(this.headers), the host header left as it is.
includeHeadersOfBase(opts, url) == opts.headers

\* new Headers(this.headers), with the host header set if the host has changed.
includeHeaders(opts, url) ==
  LET host == UrlHost(url)
  IN IF host # UrlHost(opts.url)
     THEN MapPut(opts.headers, [key |-> "host", value |-> host])
     ELSE opts.headers

\* A failed include that is always removed, whatever its onerror.
includeFailedSilently(opts, T, id) ==
  LET event == [url |-> opts.url, headers |-> opts.headers, el |-> id,
                customErrorString |-> Null]
      custom == handleIncludeError(opts.handleIncludeError, event)
      H == IF opts.handleIncludeError # "none"
           THEN [T EXCEPT !.events = Append(@, event)] ELSE T
  IN IF opts.handleIncludeError # "none" /\ custom # Null
     THEN Return(H, RNode(TextNode(custom)))
     ELSE Return(H, RNull)

\* A failed include that throws, whatever its onerror.
includeFailedIgnoringOnError(opts, T, id) ==
  LET event == [url |-> opts.url, headers |-> opts.headers, el |-> id,
                customErrorString |-> Null]
      custom == handleIncludeError(opts.handleIncludeError, event)
      H == IF opts.handleIncludeError # "none"
           THEN [T EXCEPT !.events = Append(@, event)] ELSE T
  IN IF opts.handleIncludeError # "none" /\ custom # Null
     THEN Return(H, RNode(TextNode(custom)))
     ELSE Throw(H, Error("EsiIncludeError",
                         "Could not include " \o serializeElement(H.heap, id), id))

\* if (esiIncludeResult == null) { ... }
includeFailed(opts, T, id) ==
  LET event == [url |-> opts.url, headers |-> opts.headers, el |-> id,
                customErrorString |-> Null]
      custom == handleIncludeError(opts.handleIncludeError, event)
      H == IF opts.handleIncludeError # "none"
           THEN [T EXCEPT !.events = Append(@, event)] ELSE T
      OnError(onerror) ==
        IF ~onerror.ok THEN Throw(H, Error("Error", "unquoteString", 0))
        ELSE IF onerror.value = "continue" THEN Return(H, RNull)
        ELSE Throw(H, Error("EsiIncludeError",
                            "Could not include " \o serializeElement(H.heap, id), id))
  IN IF opts.handleIncludeError # "none" /\ custom # Null
     THEN Return(H, RNode(TextNode(custom)))
     ELSE OnError(applyEsiVariables(attrValue(H.heap[id], "onerror"), opts.vars))

\* A candidate whose headers stay with the transformer for the candidates
\* after it.
includeFetchedKeepingHeaders(opts, A, id, srcs, k, url, headers) ==
  IF A.status # "ok" THEN A
  ELSE IF A.res.status >= 200 /\ A.res.status < 300
  THEN processIncludeResponse(opts, A, url, headers, A.res)
  ELSE includeLoop([opts EXCEPT !.headers = headers], A, id, srcs, k + 1)

\* The k-th candidate's turn of the loop after its fetch, and what follows.
includeFetched(opts, A, id, srcs, k, url, headers) ==
  IF A.status # "ok" THEN A
  ELSE IF A.res.status >= 200 /\ A.res.status < 300
  THEN processIncludeResponse(opts, A, url, headers, A.res)
  ELSE includeLoop(opts, A, id, srcs, k + 1)

\* The k-th candidate's turn for its URL and headers.
includeFetch(opts, T, id, srcs, k, url, headers) ==
  includeFetched(opts, awaitFetch(T, Request(url, headers, id, opts.depth)),
                 id, srcs, k, url, headers)

includeCandidate(opts, T, id, srcs, k, url) ==
  includeFetch(opts, T, id, srcs, k, url, includeHeaders(opts, url))

\* for (const src of srcs), from the k-th candidate on, and what follows it.
includeLoop(opts, T, id, srcs, k) ==
  IF k > Len(srcs) THEN includeFailed(opts, T, id)
  ELSE includeCandidate(opts, T, id, srcs, k, NewURL(srcs[k], opts.url))

\* The run T as it is when the inner stream's run D has ended.
endInner(T, D) ==
  [D EXCEPT !.heap = T.heap, !.applyVars = T.applyVars, !.out = T.out, !.log = T.log,
            !.rest = T.rest, !.cur = T.cur, !.base = T.base, !.mark = T.mark]

\* The inner stream's end: its output is the replacement text.
innerFlushed(T, D2) ==
  IF D2.status # "ok" THEN endInner(T, D2)
  ELSE Return(endInner(T, D2), RNode(TextNode(Concat(D2.out))))

\* The inner stream's flush handler, for the flushed context c2.
innerFlush(inner, T, D1, c2) ==
  innerFlushed(T, dispatchAll(inner, [D1 EXCEPT !.heap = c2.heap, !.rest = c2.children],
                              c2.openElements))

\* The inner stream after its transform handler has run for the body.
innerTransformed(inner, T, D1, c1) ==
  IF D1.status # "ok" THEN endInner(T, D1)
  ELSE innerFlush(inner, T, D1,
                  flush([c1 EXCEPT !.heap = D1.heap, !.children = D1.rest], TRUE))

\* The inner stream's transform handler, for the context c1 the body was
\* appended to.
innerTransform(inner, T, c1) ==
  IF c1.error.kind # "none" THEN Throw(T, c1.error)
  ELSE innerTransformed(inner, T,
                        dispatchAll(inner,
                                    [T EXCEPT !.heap = c1.heap, !.applyVars = FALSE,
                                              !.out = << >>, !.log = << >>,
                                              !.rest = c1.children],
                                    c1.openElements),
                        c1)

\* A replacement text that is always res.text().
processIncludeResponseText(opts, T, url, headers, res) ==
  Return(T, RNode(TextNode(IF res.body = Null THEN "" ELSE res.body)))

\* The replacement text of a successful include: res.text() without a
\* processIncludeResponse option; with the default of EsiTransformStream, the
\* body piped through an inner EsiTransformStream for url and headers.
processIncludeResponse(opts, T, url, headers, res) ==
  IF opts.processIncludeResponse = "none"
  THEN Return(T, RNode(TextNode(IF res.body = Null THEN "" ELSE res.body)))
  ELSE IF res.body = Null THEN Return(T, RNode(TextNode("")))
  ELSE innerTransform([opts EXCEPT !.url = url, !.headers = headers, !.depth = @ + 1], T,
                      append(XmlStreamerContext(esiDocument(opts.esiPrefix), TRUE, TRUE),
                             res.body))

\* A test that finds no child open.
isNeverOpenElement(openElements, firstChild) == FALSE

\* firstChild instanceof XmlElement && openElements.includes(firstChild)
isOpenElement(openElements, firstChild) ==
  IsElem(firstChild) /\ \E k \in 1..Len(openElements) : openElements[k] = firstChild.id

\* children.pop() in the place of children.shift()
popChild(children) ==
  [firstChild |-> children[Len(children)], children |-> SubSeq(children, 1, Len(children) - 1)]

\* children.shift()
shiftChild(children) == [firstChild |-> Head(children), children |-> Tail(children)]

\* One turn of dispatchCompleteTopLevelChildren's loop for a child that is
\* not an open element: the child is transformed, serialized and enqueued.
dispatchChild(opts, T, sh) ==
  LET Enqueue(R) ==
        IF R.status # "ok" THEN R
        ELSE [R EXCEPT !.out = Append(@, serialize(R.heap, R.result)), !.cur = NoNode]
  IN Enqueue(transformElementNode(
               opts,
               [T EXCEPT !.rest = sh.children, !.cur = sh.firstChild, !.base = T.heap,
                         !.mark = [nresp |-> T.nresp, reqs |-> Len(T.reqs),
                                   events |-> Len(T.events)],
                         !.log = Append(@, sh.firstChild)],
               sh.firstChild))

\* dispatchCompleteTopLevelChildren over the children T.rest of the context
\* and its openElements, up to its end or to the await it is suspended at.
dispatchAll(opts, T, openElements) ==
  IF T.status # "ok" THEN T
  ELSE IF T.rest = << >> \/ isOpenElement(openElements, shiftChild(T.rest).firstChild)
  THEN [T EXCEPT !.cur = NoNode]
  ELSE dispatchAll(opts, dispatchChild(opts, T, shiftChild(T.rest)), openElements)

\* A catch without the instanceof test.
catchesAnything(ex) == TRUE

\* catch(ex) { if (!(ex instanceof EsiIncludeError)) throw ex; }
catches(ex) == ex.kind = "EsiIncludeError"

\* A try that lets the attempt's error through.
tryAttemptedRethrown(opts, A, exceptTag) == A

\* A try that also catches what its except throws, and then yields what the
\* attempt left.
tryAttemptedCatchingExcept(opts, A, exceptTag) ==
  LET E == transformChildElements(opts, [A EXCEPT !.status = "ok", !.error = NoError],
                                  exceptTag, 1, << >>)
  IN IF A.status = "error" /\ catches(A.error)
     THEN IF E.status = "error" /\ catches(E.error)
          THEN [E EXCEPT !.status = "ok", !.error = NoError]
          ELSE E
     ELSE A

\* A try that transforms its except whatever the attempt gave.
tryAttemptedExceptAlways(opts, A, exceptTag) ==
  IF A.status = "blocked" THEN A
  ELSE transformChildElements(opts, [A EXCEPT !.status = "ok", !.error = NoError],
                              exceptTag, 1, << >>)

\* The esi:try branch after the attempt: the except children if the attempt
\* threw what the catch catches.
tryAttempted(opts, A, exceptTag) ==
  IF A.status = "error" /\ catches(A.error)
  THEN transformChildElements(opts, [A EXCEPT !.status = "ok", !.error = NoError],
                              exceptTag, 1, << >>)
  ELSE A

\* this.applyVars = applyVarsPrev, after a return only.
restoreOnReturn(R, applyVarsPrev) ==
  IF R.status = "ok" THEN [R EXCEPT !.applyVars = applyVarsPrev] ELSE R

\* finally { this.applyVars = applyVarsPrev; }
restoreApplyVars(R, applyVarsPrev) ==
  IF R.status = "blocked" THEN R ELSE [R EXCEPT !.applyVars = applyVarsPrev]

\* An esi:try branch that asks for at least one attempt and one except and
\* takes the first of each.
transformTryAtLeastOne(opts, T, id) ==
  LET attemptTags == esiChildTags(T.heap, id, "attempt")
      exceptTags == esiChildTags(T.heap, id, "except")
      attemptTag == T.heap[id].children[SetMin(attemptTags)].id
      exceptTag == T.heap[id].children[SetMin(exceptTags)].id
  IN IF attemptTags = {}
     THEN Throw(T, Error("EsiStructureError",
                         "esi:try requires exactly one esi:attempt tag as a direct child", id))
     ELSE IF exceptTags = {}
     THEN Throw(T, Error("EsiStructureError",
                         "esi:try requires exactly one esi:except tag as a direct child", id))
     ELSE restoreApplyVars(
            tryAttempted(opts,
                         transformChildElements(opts, [T EXCEPT !.applyVars = TRUE],
                                                attemptTag, 1, << >>),
                         exceptTag),
            T.applyVars)

\* The esi:try branch.
transformTry(opts, T, id) ==
  LET attemptTags == esiChildTags(T.heap, id, "attempt")
      exceptTags == esiChildTags(T.heap, id, "except")
      attemptTag == T.heap[id].children[CHOOSE k \in attemptTags : TRUE].id
      exceptTag == T.heap[id].children[CHOOSE k \in exceptTags : TRUE].id
  IN IF Cardinality(attemptTags) # 1
     THEN Throw(T, Error("EsiStructureError",
                         "esi:try requires exactly one esi:attempt tag as a direct child", id))
     ELSE IF Cardinality(exceptTags) # 1
     THEN Throw(T, Error("EsiStructureError",
                         "esi:try requires exactly one esi:except tag as a direct child", id))
     ELSE restoreApplyVars(
            tryAttempted(opts,
                         transformChildElements(opts, [T EXCEPT !.applyVars = TRUE],
                                                attemptTag, 1, << >>),
                         exceptTag),
            T.applyVars)

\* The esi:vars branch.
transformVars(opts, T, id) ==
  restoreApplyVars(transformChildElements(opts, [T EXCEPT !.applyVars = TRUE], id, 1, << >>),
                   T.applyVars)

\* A loop over the when tags that evaluates the test of every one of them.
RECURSIVE chooseEveryBranch(_, _, _, _)
chooseEveryBranch(vars, heap, id, k) ==
  LET kids == heap[id].children
      Tested(r, rest) ==
        IF ~r.ok THEN [ok |-> FALSE, error |-> r.error, branch |-> 0]
        ELSE IF ~rest.ok THEN rest
        ELSE IF r.value THEN [ok |-> TRUE, error |-> NoError, branch |-> kids[k].id]
        ELSE rest
  IN IF k > Len(kids) THEN [ok |-> TRUE, error |-> NoError, branch |-> 0]
     ELSE IF k \notin esiChildTags(heap, id, "when")
     THEN chooseEveryBranch(vars, heap, id, k + 1)
     ELSE Tested(evaluate(attrValue(heap[kids[k].id], "test"), vars),
                 chooseEveryBranch(vars, heap, id, k + 1))

\* for (const whenTag of whenTags): the when children of el from its k-th
\* child on, up to the first whose test evaluates to true: [ok, error,
\* branch], branch 0 for none and ok false where evaluate throws.
RECURSIVE chooseActiveBranch(_, _, _, _)
chooseActiveBranch(vars, heap, id, k) ==
  LET kids == heap[id].children
      Tested(r) ==
        IF ~r.ok THEN [ok |-> FALSE, error |-> r.error, branch |-> 0]
        ELSE IF r.value THEN [ok |-> TRUE, error |-> NoError, branch |-> kids[k].id]
        ELSE chooseActiveBranch(vars, heap, id, k + 1)
  IN IF k > Len(kids) THEN [ok |-> TRUE, error |-> NoError, branch |-> 0]
     ELSE IF k \notin esiChildTags(heap, id, "when")
     THEN chooseActiveBranch(vars, heap, id, k + 1)
     ELSE Tested(evaluate(attrValue(heap[kids[k].id], "test"), vars))

\* The esi:choose branch after the loop over the when tags.
chooseBranch(opts, T, id, active) ==
  LET otherwiseTags == esiChildTags(T.heap, id, "otherwise")
      activeBranch ==
        IF active.branch # 0 THEN active.branch
        ELSE IF otherwiseTags # {}
        THEN T.heap[id].children[CHOOSE k \in otherwiseTags : TRUE].id
        ELSE 0
  IN IF ~active.ok THEN Throw(T, active.error)
     ELSE IF activeBranch = 0 THEN Return(T, RNull)
     ELSE restoreApplyVars(
            transformChildElements(opts, [T EXCEPT !.applyVars = TRUE], activeBranch, 1, << >>),
            T.applyVars)

\* The esi:choose branch.
transformChoose(opts, T, id) ==
  LET kids == T.heap[id].children
  IN IF esiChildTags(T.heap, id, "when") = {}
     THEN Throw(T, Error("EsiStructureError",
                         "esi:choose must have at least one esi:when as direct child", id))
     ELSE IF \E k \in esiChildTags(T.heap, id, "when") :
                ~MapHas(T.heap[kids[k].id].attrs, "test")
     THEN Throw(T, Error("EsiStructureError",
                         "esi:when tags are required to have a test attribute.", id))
     ELSE IF Cardinality(esiChildTags(T.heap, id, "otherwise")) > 1
     THEN Throw(T, Error("EsiStructureError",
                         "esi:choose must not have more than one esi:otherwise", id))
     ELSE chooseBranch(opts, T, id, chooseActiveBranch(opts.vars, T.heap, id, 1))

----------------------------------------------------------------------------
(* The stream: an XmlTransformStream over an EsiTransformer.                *)
(*                                                                         *)
(* The host writes the input in chunks and then closes the writable side;   *)
(* the stream runs its transform handler for one chunk at a time and its    *)
(* flush handler at the close, each to its end before the next begins.  A   *)
(* handler is suspended only at the await of an include's fetch.            *)

VARIABLES
  opts,        \* the EsiTransformer of the stream
  doc,         \* the input the host is going to write
  unread,      \* the part of doc not yet written
  nwrites,     \* the number of chunks written
  context,     \* xmlStreamerContext
  pc,          \* "idle", "transform" or "flush" (the handler suspended), "closed",
               \* "errored", or "failed" (the constructor threw)
  applyVars,   \* the transformer's applyVars
  cur,         \* the node of the suspended transformElementNode
  resps,       \* the responses that call has received
  seen,        \* the requests and events that call has produced
  inflight,    \* the requests waiting for a response
  fetched,     \* every request issued, in order
  answers,     \* the status of the response to each answered request, in order
  events,      \* every handleIncludeError event, in order
  dispatched,  \* every top-level node handed to the transformer, in order
  out,         \* the chunks enqueued downstream
  err          \* the error the stream failed with

vars == <<opts, doc, unread, nwrites, context, pc, applyVars, cur, resps, seen, inflight,
          fetched, answers, events, dispatched, out, err>>

MaxChunks == 2

BaseUrl == "http://h/"
BaseHeaders == <<[key |-> "host", value |-> "h"], [key |-> "accept", value |-> "t"]>>

\* The origin's body for a URL.
BodyOf(url) ==
  CASE url = "http://h/a" -> "A"
    [] url = "http://h/b" -> "B"
    [] url = "http://g/n" -> "[<esi:include src='/a'/>]"
    [] url = "http://h/0" -> Null
    [] OTHER -> "?"

Statuses == {200, 404}

\* new EsiTransformer(url, headers, options), with the vars that
\* EsiTransformStream gives the options.
EsiTransformerOf(url, headers, handler, callback, esiPrefix) ==
  [url |-> url, headers |-> headers, depth |-> 0, vars |-> EsiVariables(url, headers),
   handleIncludeError |-> handler, processIncludeResponse |-> callback,
   esiPrefix |-> esiPrefix]

EsiTransformer(handler, callback, esiPrefix) ==
  EsiTransformerOf(BaseUrl, BaseHeaders, handler, callback, esiPrefix)

\* The error the constructor of EsiTransformStream throws for options.esiPrefix.
constructorError(esiPrefix) ==
  IF esiPrefix \notin {Null, Undefined} /\ ~ValidPrefix(esiPrefix)
  THEN Error("EsiError",
             "ESI namespace prefix '" \o esiPrefix \o "' is not a valid identifier.", 0)
  ELSE NoError

\* The stream after its construction for one of the transformers, with one
\* of the documents to be written, over an XmlDocument that allows unknown
\* namespace prefixes or does not.
InitIn(documents, transformers, allowances) ==
  /\ doc \in documents
  /\ opts \in transformers
  /\ unread = doc
  /\ nwrites = 0
  /\ \E allow \in allowances :
       context = XmlStreamerContext([esiDocument(opts.esiPrefix) EXCEPT
                                       !.allowUnknownNamespacePrefixes = allow],
                                    TRUE, TRUE)
  /\ pc = IF constructorError(opts.esiPrefix) = NoError THEN "idle" ELSE "failed"
  /\ applyVars = FALSE
  /\ cur = NoNode
  /\ resps = << >>
  /\ seen = [reqs |-> 0, events |-> 0]
  /\ inflight = << >>
  /\ fetched = << >>
  /\ answers = << >>
  /\ events = << >>
  /\ dispatched = << >>
  /\ out = << >>
  /\ err = constructorError(opts.esiPrefix)

\* new EsiTransformStream(url, headers, options): its XmlDocument does not
\* allow unknown prefixes.
InitOf(documents, transformers) == InitIn(documents, transformers, {FALSE})

InitWith(documents, handlers, callbacks, prefixes) ==
  InitOf(documents,
         {EsiTransformer(h, c, p) : h \in handlers, c \in callbacks, p \in prefixes})

\* The handler's dispatchCompleteTopLevelChildren, begun (resume = FALSE) or
\* resumed with one more response, over the context c; closing tells the
\* flush handler from the transform handler.
Dispatch(c, rs, resume, closing) ==
  \E D \in {dispatchAll(opts,
                        [NewRun(c.heap, rs) EXCEPT
                           !.rest = IF resume THEN <<cur>> \o c.children ELSE c.children],
                        c.openElements)} :
    LET blocked == D.status = "blocked"
        log == IF resume THEN Tail(D.log) ELSE D.log
        old == IF resume THEN seen ELSE [reqs |-> 0, events |-> 0]
        new == SubSeq(D.reqs, old.reqs + 1, Len(D.reqs))
    IN /\ context' = [c EXCEPT !.heap = IF blocked THEN D.base ELSE D.heap,
                               !.children = D.rest]
       /\ applyVars' = D.applyVars
       /\ cur' = IF blocked THEN D.cur ELSE NoNode
       /\ resps' = IF blocked THEN SubSeq(D.resps, D.mark.nresp + 1, Len(D.resps)) ELSE << >>
       /\ seen' = IF blocked
                  THEN [reqs |-> Len(D.reqs) - D.mark.reqs,
                        events |-> Len(D.events) - D.mark.events]
                  ELSE [reqs |-> 0, events |-> 0]
       /\ fetched' = fetched \o new
       /\ inflight' = (IF resume THEN Tail(inflight) ELSE inflight) \o new
       /\ events' = events \o SubSeq(D.events, old.events + 1, Len(D.events))
       /\ dispatched' = dispatched \o
                        [k \in 1..Len(log) |->
                           [node |-> log[k],
                            closed |-> ~IsElem(log[k]) \/ log[k].id \in c.closed,
                            closing |-> closing]]
       /\ out' = out \o D.out
       /\ err' = D.error
       /\ pc' = CASE D.status = "error" -> "errored"
                  [] blocked -> IF closing THEN "flush" ELSE "transform"
                  [] OTHER -> IF closing THEN "closed" ELSE "idle"

\* transformer.transform(chunk), chunk the next n characters of the input.
Write(n) ==
  /\ pc = "idle"
  /\ nwrites < MaxChunks
  /\ n \in 1..Len(unread)
  /\ nwrites = MaxChunks - 1 => n = Len(unread)
  /\ unread' = Slice(unread, n)
  /\ nwrites' = nwrites + 1
  /\ \E c \in {append(context, SliceTo(unread, 0, n))} :
       IF c.error.kind # "none"
       THEN /\ context' = c
            /\ pc' = "errored"
            /\ err' = c.error
            /\ UNCHANGED <<applyVars, cur, resps, seen, inflight, fetched, events, dispatched,
                           out>>
       ELSE Dispatch(c, << >>, FALSE, FALSE)
  /\ UNCHANGED <<opts, doc, answers>>

\* The response to the request in flight arrives and the suspended handler
\* goes on.
FetchComplete(status) ==
  /\ pc \in {"transform", "flush"}
  /\ inflight # << >>
  /\ \E res \in {Response(status, IF status >= 200 /\ status < 300
                                   THEN BodyOf(Head(inflight).url) ELSE Null)} :
       /\ answers' = Append(answers, status)
       /\ Dispatch(context, Append(resps, res), TRUE, pc = "flush")
  /\ UNCHANGED <<opts, doc, unread, nwrites>>

\* transformer.flush(), at the close of the writable side.
Close ==
  /\ pc = "idle"
  /\ unread = ""
  /\ \E c \in {flush(context, TRUE)} : Dispatch(c, << >>, FALSE, TRUE)
  /\ UNCHANGED <<opts, doc, unread, nwrites, answers>>

\* The documents written in chunks.
Documents ==
  {"<!--esi b-->c",
   "x<esi:include src='a'/>y<esi:include src='b'/>z",
   "<esi:vars>$(HTTP_HOST)</esi:vars>y<esi:remove>"}

Init == InitWith(Documents, {"none"}, {"none"}, {Undefined})

Next ==
  \/ \E n \in 1..Len(unread) : Write(n)
  \/ \E status \in Statuses : FetchComplete(status)
  \/ Close

Spec == Init /\ [][Next]_vars

----------------------------------------------------------------------------
(* The directive engine on whole documents: the host writes the document as *)
(* one chunk and closes, under each handleIncludeError handler (none, one   *)
(* that leaves customErrorString alone, one that sets it) and with or       *)
(* without EsiTransformStream's processIncludeResponse.                     *)

Handlers == {"none", "ignore", "custom"}
Callbacks == {"none", "esi"}

\* The documents written whole.  Every include names src 'a' and, if any,
\* alt 'b'.
DocumentsT ==
  {"p<esi:include src='a' alt='b'/>q",
   "p<esi:include src='a' onerror='continue'/>q",
   "p<esi:include src='a' onerror='$(HTTP_REFERER|continue)'/>q",
   "<esi:try><esi:attempt>1<esi:include src='a'/>2</esi:attempt><esi:except>3</esi:except></esi:try>4",
   "<esi:try><esi:attempt>1<esi:attempt/>2</esi:attempt><esi:except>3</esi:except></esi:try>4",
   "<esi:try><esi:attempt>1<esi:include alt='b'/>2</esi:attempt><esi:except>3</esi:except></esi:try>4"}

InitT == InitWith(DocumentsT, Handlers, Callbacks, {Undefined})

WriteWhole == Write(Len(unread))

NextT ==
  \/ WriteWhole
  \/ \E status \in Statuses : FetchComplete(status)
  \/ Close

SpecT == InitT /\ [][NextT]_vars

----------------------------------------------------------------------------
(* The directives that fetch nothing, on whole documents: esi:choose over    *)
(* the tests of Tests, with and without an esi:otherwise.                    *)

Tests == {"true", "false", "!false", "$(HTTP_HOST)=='h'", "(", "1>2"}

ChooseDocument(test1, test2, otherwise) ==
  "<esi:choose><esi:when test=\"" \o test1 \o "\">a</esi:when><esi:when test=\""
  \o test2 \o "\">b$(HTTP_HOST)</esi:when>"
  \o (IF otherwise THEN "<esi:otherwise>c</esi:otherwise>" ELSE "") \o "</esi:choose>"

DocumentsC ==
  {ChooseDocument(test1, test2, otherwise) :
     test1 \in Tests, test2 \in Tests, otherwise \in BOOLEAN}

InitC == InitWith(DocumentsC, {"none"}, {"none"}, {Undefined})

NextC ==
  \/ WriteWhole
  \/ Close

SpecC == InitC /\ [][NextC]_vars

(* The expression evaluator, reached through the test of a when: the stream *)
(* is fed one esi:choose whose only when has the expression as its test. *)

Operands == {"1", "'a'", "true", "$(HTTP_HOST)"}

Operators == {"==", "<", "&", "|"}

\* The comparisons with an operand that is undefined, X being no variable.
Comparisons == {"==", "!=", "<=", ">=", "<", ">"}

UndefinedPairs ==
  {<<"$(X)", "1">>, <<"'a'", "$(X)">>, <<"$(X)", "$(X)">>, <<"true", "$(X)">>}

UndefinedComparisons ==
  {p[1] \o " " \o op \o " " \o p[2] : p \in UndefinedPairs, op \in Comparisons}

Negated(e) == "!(" \o e \o ")"

\* The comparisons of operands of each type: numbers and strings whose
\* numeric and textual orders differ, and a boolean.
TypedOperands == {"10", "9", "'10'", "'9'", "true"}

TypedComparison(a, op, b) == a \o " " \o op \o " " \o b

TypedComparisons ==
  {TypedComparison(a, op, b) : a \in TypedOperands, op \in Comparisons, b \in TypedOperands}

Expressions ==
  {a \o " " \o op \o " " \o b : a \in Operands, op \in Operators, b \in Operands}
  \cup {"", "(", ")", "(true", "true)", "(true)", "!", "!false", "1 ==",
        "true false", "$(A1)", "$(X)", "$(X|h)==$(HTTP_HOST)", "''a'"}
  \cup UndefinedComparisons
  \cup {Negated(e) : e \in UndefinedComparisons}
  \cup {e \o " | true" : e \in UndefinedComparisons}
  \cup TypedComparisons

WhenDocument(test) ==
  "<esi:choose><esi:when test=\"" \o test
  \o "\">a</esi:when><esi:otherwise>c</esi:otherwise></esi:choose>"

DocumentsE == {WhenDocument(test) : test \in Expressions}

InitE == InitWith(DocumentsE, {"none"}, {"none"}, {Undefined})

SpecE == InitE /\ [][NextC]_vars

(* Variable substitution: text before, inside and after an esi:vars, and *)
(* documents in which vars, try and choose are left by an error. *)

Texts == {"", "x", "$(HTTP_HOST)", "$(X|d) $(HTTP_HOST)"}

VarsDocument(pre, inner, post) == pre \o "<esi:vars>" \o inner \o "</esi:vars>" \o post

NestedVars == "<esi:vars><esi:vars>a</esi:vars>$(HTTP_HOST)</esi:vars>$(HTTP_HOST)"

Attempted(attempt) ==
  "<esi:try><esi:attempt>" \o attempt
  \o "</esi:attempt><esi:except>3$(HTTP_HOST)</esi:except></esi:try>$(HTTP_HOST)"

ErrorExits ==
  {"<esi:vars>1<esi:attempt/></esi:vars>$(HTTP_HOST)",
   "<esi:vars>1<esi:include src='a'/></esi:vars>$(HTTP_HOST)",
   "<esi:choose><esi:when test=\"true\">1<esi:attempt/></esi:when></esi:choose>$(HTTP_HOST)",
   "<esi:choose><esi:when test=\"(\">1</esi:when></esi:choose>$(HTTP_HOST)",
   Attempted("1<esi:include src='a'/>2"),
   Attempted("<esi:choose><esi:when test=\"(\">1</esi:when></esi:choose>"),
   "<esi:try><esi:attempt>1<esi:except/></esi:attempt><esi:except>2</esi:except></esi:try>$(HTTP_HOST)"}

\* A text and an element of another namespace that holds a text, as the
\* children of a vars, an attempt, a when and an otherwise.
DeepText == "$(HTTP_HOST)<f:b xmlns:f='u'>$(HTTP_HOST)</f:b>"

DeepVars ==
  {"<esi:vars>" \o DeepText \o "</esi:vars>",
   "<esi:try><esi:attempt>" \o DeepText \o "</esi:attempt><esi:except>e</esi:except></esi:try>",
   "<esi:choose><esi:when test=\"true\">" \o DeepText \o "</esi:when></esi:choose>",
   "<esi:choose><esi:when test=\"false\">w</esi:when><esi:otherwise>" \o DeepText
     \o "</esi:otherwise></esi:choose>"}

DocumentsV ==
  {VarsDocument(pre, inner, post) : pre \in Texts, inner \in Texts, post \in Texts}
  \cup {NestedVars} \cup ErrorExits \cup DeepVars

InitV == InitWith(DocumentsV, {"none"}, {"none"}, {Undefined})

SpecV == InitV /\ [][NextT]_vars

(* The esiPrefix option: streams constructed with each prefix, fed documents *)
(* whose tags carry the esi prefix, another ESI prefix, or a foreign one. *)

Prefixes == {Undefined, Null, "my-esi", "e", "", ":", "123foo"}

EsiInclude == "foo<esi:include src=\"/a\" />baz"

\* Documents without <!--esi, ESI tags or default-namespace tags.
ForeignDocuments ==
  {"piyo",
   "p<f:b />q",
   "hoge<foo:bar hi:ho=\"hello\" /><foo:baz x:test=\"yes\">Yes</foo:baz>piyo"}

\* Elements of a declared namespace, with text and element children.
WellFormedDocuments ==
  {"<f:b xmlns:f=\"u\">x</f:b>",
   "<f:b xmlns:f=\"u\"><f:c />x</f:b>",
   "<f:b xmlns:f=\"u\">x<f:c />y</f:b>",
   "<f:b a=\"1\" xmlns:f=\"u\" />"}

DocumentsP ==
  {EsiInclude,
   "foo<my-esi:include src=\"/a\" />baz",
   "foo<e:include src=\"/a\" />baz",
   "foo<my-esi:include src=\"/a\" xmlns:my-esi=\"http://www.edge-delivery.org/esi/1.0\" />baz",
   "a<b>c</b>",
   "x<esi:remove>r</esi:remove>y"}
  \cup ForeignDocuments \cup WellFormedDocuments

InitP == InitWith(DocumentsP, {"none"}, {"none"}, Prefixes)

SpecP == InitP /\ [][NextT]_vars

(* Includes of fragments that hold includes themselves, of a fragment on *)
(* another host, and of a response without body. *)

\* An include of another host before a candidate, an include and a variable
\* of the stream's own host.
OverrideThenAlt == "p<esi:include src='//g/b' alt='a'/>q"
OverrideThenInclude == "p<esi:include src='//g/b' onerror='continue'/><esi:include src='a'/>q"
OverrideThenVars ==
  "p<esi:include src='//g/b' onerror='continue'/><esi:vars>$(HTTP_HOST)</esi:vars>q"

DocumentsR ==
  {"p<esi:include src='http://g/n'/>q",
   "p<esi:include src='/0'/>q",
   "p<esi:include src='a'/><esi:include src='//g/b'/>q",
   OverrideThenAlt, OverrideThenInclude, OverrideThenVars}

InitR == InitWith(DocumentsR, Handlers, Callbacks, {Undefined})

SpecR == InitR /\ [][NextT]_vars

----------------------------------------------------------------------------
(* The structure of the directives: an esi:try over every sequence of up to  *)
(* MaxParts children drawn from a well-formed attempt, a well-formed except, *)
(* a text and an attempt wrapped in an element of another namespace; and    *)
(* each directive in each place the transform reaches.                      *)

MaxParts == 3

AttemptPart == "<esi:attempt>1<esi:include src='a'/></esi:attempt>"
ExceptPart == "<esi:except>2<esi:include src='b'/></esi:except>"
WrappedPart == "<f:b xmlns:f='u'><esi:attempt>3</esi:attempt></f:b>"

TryParts == {AttemptPart, ExceptPart, WrappedPart, "t"}

TryDocument(parts) == "p<esi:try>" \o Concat(parts) \o "</esi:try>q"

\* An ESI element of every local name the transformer tells apart, and of
\* two it does not know, in each place the transform reaches: the top level,
\* an element of another namespace, esi:vars, an attempt and a when.
Directives ==
  {"<esi:comment text='c'/>", "<esi:remove>r</esi:remove>", "<esi:vars>v</esi:vars>",
   "<esi:attempt>1</esi:attempt>", "<esi:except>2</esi:except>",
   "<esi:when test=\"true\">3</esi:when>", "<esi:otherwise>4</esi:otherwise>",
   "<esi:foo>5</esi:foo>", "<esi:Include src='a'/>"}

Places ==
  {<<"x", "y">>,
   <<"x<f:b xmlns:f='u'>", "</f:b>y">>,
   <<"x<esi:vars>", "</esi:vars>y">>,
   <<"x<esi:try><esi:attempt>", "</esi:attempt><esi:except>e</esi:except></esi:try>y">>,
   <<"x<esi:choose><esi:when test=\"true\">", "</esi:when></esi:choose>y">>}

DirectiveDocument(place, directive) == place[1] \o directive \o place[2]

\* A try whose attempt and whose except both include, alone and as the
\* attempt of an enclosing try.
InnerTry ==
  "<esi:try><esi:attempt><esi:include src='a'/></esi:attempt>"
  \o "<esi:except>i<esi:include src='b'/></esi:except></esi:try>"

NestedTry ==
  "<esi:try><esi:attempt>" \o InnerTry \o "</esi:attempt><esi:except>o</esi:except></esi:try>q"

\* The places whose content is discarded, with what the stream emits for
\* them, and the directives put there.
DiscardingPlaces ==
  {<<"x<esi:remove>", "</esi:remove>y", "xy">>,
   <<"x<esi:comment>", "</esi:comment>y", "xy">>,
   <<"x<esi:choose><esi:when test=\"false\">",
     "</esi:when><esi:otherwise>c</esi:otherwise></esi:choose>y", "xcy">>,
   <<"x<esi:choose><esi:when test=\"true\">a</esi:when><esi:when test=\"true\">",
     "</esi:when></esi:choose>y", "xay">>,
   <<"x<esi:choose><esi:when test=\"true\">a</esi:when><esi:otherwise>",
     "</esi:otherwise></esi:choose>y", "xay">>,
   <<"x<esi:try><esi:attempt>a</esi:attempt><esi:except>",
     "</esi:except></esi:try>y", "xay">>}

DiscardedDirectives ==
  Directives \cup {"<esi:include src='a'/>", "<esi:include/>", "<esi:try/>", "<esi:choose/>"}

DiscardedDocument(place, directive) == place[1] \o directive \o place[2]

\* A foreign element around an element that a transform leaves alone,
\* splices in from an esi:vars, or splices in from the when of a choose.
SplicedDocuments ==
  {"<f:b xmlns:f='u'><f:c/>t</f:b>",
   "<f:b xmlns:f='u'><esi:vars><f:c/>t</esi:vars></f:b>",
   "<f:b xmlns:f='u'><esi:choose><esi:when test=\"true\"><f:c/></esi:when></esi:choose></f:b>"}

DocumentsS ==
  {TryDocument(parts) : parts \in UNION {[1..n -> TryParts] : n \in 0..MaxParts}}
  \cup {InnerTry, NestedTry} \cup SplicedDocuments
  \cup {DiscardedDocument(place, directive) :
            place \in DiscardingPlaces, directive \in DiscardedDirectives}
  \cup {DirectiveDocument(place, directive) : place \in Places, directive \in Directives}

InitS == InitWith(DocumentsS, {"none"}, {"none"}, {Undefined})

SpecS == InitS /\ [][NextT]_vars

----------------------------------------------------------------------------
(* The streamer's stack of open elements: every sequence of up to MaxTags    *)
(* open and close tags of two prefixes, followed by a tail that the close of *)
(* the stream finds buffered or postponed.                                   *)

MaxTags == 3

OpenTags == {"<esi:vars>", "<f:vars xmlns:f='u'>"}
CloseTags == {"</esi:vars>", "</f:vars>"}

Tails == {"", "t<", "<esi:v"}

TagsDocument(tags, tail) == Concat(tags) \o tail

TagSequences == UNION {[1..n -> OpenTags \cup CloseTags] : n \in 0..MaxTags}

DocumentsX == {TagsDocument(tags, tail) : tags \in TagSequences, tail \in Tails}

InitX == InitWith(DocumentsX, {"none"}, {"none"}, {Undefined})

SpecX == InitX /\ [][NextC]_vars

----------------------------------------------------------------------------
(* The built-in variables: streams for a request with a query string, a      *)
(* cookie, an accept-language and an empty referer, and for the bare         *)
(* request, fed one variable reference inside an esi:vars, or one test that  *)
(* holds a reference.                                                        *)

QueryUrl == "http://h/?n=100&e=&s=abc"

QueryHeaders ==
  <<[key |-> "host", value |-> "h"], [key |-> "referer", value |-> ""],
    [key |-> "cookie", value |-> "id=571; z=false"],
    [key |-> "accept-language", value |-> "en, fr;q=0.9"]>>

Transformers ==
  {EsiTransformer("none", "none", Undefined),
   EsiTransformerOf(QueryUrl, QueryHeaders, "none", "none", Undefined)}

References ==
  {"X", "HTTP_HOST", "HTTP_HOST{u}", "HTTP_REFERER", "HTTP_COOKIE", "HTTP_COOKIE{id}",
   "HTTP_COOKIE{u}", "HTTP_ACCEPT_LANGUAGE{en}", "HTTP_ACCEPT_LANGUAGE{u}",
   "QUERY_STRING{n}", "QUERY_STRING{e}", "QUERY_STRING{u}"}

Defaults == {"", "|d", "|'d e'"}

ReferenceDocument(reference, default) ==
  "<esi:vars>[$(" \o reference \o default \o ")]</esi:vars>"

ReferenceTests ==
  {"$(QUERY_STRING{n}) == 100", "$(QUERY_STRING{n}) > 20", "$(QUERY_STRING{n}) < 20",
   "$(HTTP_COOKIE{id}) >= 1000", "$(QUERY_STRING{s}) == 'abc'", "$(HTTP_HOST) == 'h'",
   "$(HTTP_ACCEPT_LANGUAGE{en})", "$(HTTP_ACCEPT_LANGUAGE{u})", "$(X) == 1", "$(X|100) > 20"}

DocumentsB ==
  {ReferenceDocument(r, d) : r \in References, d \in Defaults}
  \cup {WhenDocument(test) : test \in ReferenceTests}

InitB == InitOf(DocumentsB, Transformers)

SpecB == InitB /\ [][NextC]_vars

----------------------------------------------------------------------------
(* The expression grammar: streams fed a choose whose test is the text of    *)
(* an expression tree of at most two operators, written with the             *)
(* parentheses that the precedences require.                                 *)

Leaves == {"true", "false", "1", "2"}
BinaryOperators == {"|", "&", "=="}

\* A tree is <<text>>, <<"!", tree>> or <<operator, tree, tree>>.
LeafTrees == {<<leaf>> : leaf \in Leaves}
UnaryTrees(trees) == {<<"!", tree>> : tree \in trees}
BinaryTrees(lefts, rights) ==
  {<<op, left, right>> : op \in BinaryOperators, left \in lefts, right \in rights}

OneOperatorTrees == UnaryTrees(LeafTrees) \cup BinaryTrees(LeafTrees, LeafTrees)

Trees ==
  LeafTrees \cup OneOperatorTrees \cup UnaryTrees(OneOperatorTrees)
  \cup BinaryTrees(OneOperatorTrees, LeafTrees)
  \cup BinaryTrees(LeafTrees, OneOperatorTrees)

\* How tightly the operator at the root of a tree binds.
Binding(tree) ==
  IF Len(tree) = 1 THEN 5
  ELSE CASE tree[1] = "==" -> 4
         [] tree[1] = "!" -> 3
         [] tree[1] = "&" -> 2
         [] tree[1] = "|" -> 1

Parenthesised(text, needed) == IF needed THEN "(" \o text \o ")" ELSE text

\* The text of a tree: an operand is parenthesised when it binds less
\* tightly than its operator, and the right operand of a binary operator
\* also when it binds equally.
RECURSIVE Render(_)
Render(tree) ==
  IF Len(tree) = 1 THEN tree[1]
  ELSE IF Len(tree) = 2
  THEN "!" \o Parenthesised(Render(tree[2]), Binding(tree[2]) < Binding(tree))
  ELSE Parenthesised(Render(tree[2]), Binding(tree[2]) < Binding(tree))
       \o " " \o tree[1] \o " "
       \o Parenthesised(Render(tree[3]), Binding(tree[3]) <= Binding(tree))

Rendered == [tree \in Trees |-> WhenDocument(Render(tree))]

DocumentsY == {Rendered[tree] : tree \in Trees}

InitY == InitWith(DocumentsY, {"none"}, {"none"}, {Undefined})

SpecY == InitY /\ [][NextC]_vars

----------------------------------------------------------------------------
(* Tags without a prefix: streams fed, in chunks, two pieces of text or of   *)
(* unprefixed tags, bare or inside a prefixed element.                       *)

Pieces == {"", "t", "<b>", "</b>", "<b/>", "<b a='1'>", "</c >"}

\* The elements around the pieces: the text up to the end of their open tag
\* and their close tag, and what the stream emits for each around a text.
Wrappers ==
  {<<"", "", "", "">>,
   <<"x<f:b xmlns:f='u'>", "</f:b>", "x<f:b xmlns:f=\"u\">", "</f:b>">>,
   <<"x<esi:vars>", "</esi:vars>", "x", "">>}

PiecesDocument(wrapper, first, second) == wrapper[1] \o first \o second \o wrapper[2]

DocumentsU ==
  {PiecesDocument(wrapper, first, second) :
     wrapper \in Wrappers, first \in Pieces, second \in Pieces}

InitU == InitWith(DocumentsU, {"none"}, {"none"}, {Undefined})

NextU ==
  \/ \E n \in 1..Len(unread) : Write(n)
  \/ Close

SpecU == InitU /\ [][NextU]_vars

----------------------------------------------------------------------------
(* Namespace resolution: streams over an XmlDocument that allows unknown     *)
(* prefixes or does not, fed an element whose prefix is defined by itself,   *)
(* by its parent, by the document, by several of them, or by none.           *)

\* The namespace definitions of the outer and of the inner element, and the
\* prefixes of the inner element; the outer element always defines f as u,
\* and the document defines esi.
OuterDefs == {"", " xmlns:g='v'", " xmlns:esi='v'"}
InnerDefs == {"", " xmlns:f='w'", " xmlns:g='w'", " xmlns:esi='w'"}
InnerPrefixes == {"f", "g", "esi"}

ResolutionDocument(outerDefs, innerDefs, prefix) ==
  "<f:a xmlns:f='u'" \o outerDefs \o "><" \o prefix \o ":vars" \o innerDefs \o "/></f:a>"

DocumentsN ==
  {ResolutionDocument(outerDefs, innerDefs, prefix) :
     outerDefs \in OuterDefs, innerDefs \in InnerDefs, prefix \in InnerPrefixes}

InitN == InitIn(DocumentsN, {EsiTransformer("none", "none", Undefined)}, BOOLEAN)

SpecN == InitN /\ [][NextC]_vars

----------------------------------------------------------------------------
(* Properties of the stream *)

Success(status) == status >= 200 /\ status < 300

\* The responses the host has given so far, in order.
Responses ==
  [k \in 1..Len(answers) |->
     Response(answers[k], IF Success(answers[k]) THEN BodyOf(fetched[k].url) ELSE Null)]

\* What a stream of transformer o emits when document is written as a single
\* chunk and the writable side is closed, its fetches being answered by rs.
WholeOutput(o, document, rs) ==
  LET Flushed(D1, c2) ==
        D1.out \o dispatchAll(o, [NewRun(c2.heap, SubSeq(rs, D1.nresp + 1, Len(rs)))
                                    EXCEPT !.rest = c2.children],
                              c2.openElements).out
      Written(c1, D1) ==
        IF D1.status # "ok" THEN D1.out
        ELSE Flushed(D1, flush([c1 EXCEPT !.heap = D1.heap, !.children = D1.rest], TRUE))
      Appended(c1) ==
        IF c1.error.kind # "none" THEN << >>
        ELSE Written(c1, dispatchAll(o, [NewRun(c1.heap, rs) EXCEPT !.rest = c1.children],
                                     c1.openElements))
  IN Concat(Appended(append(XmlStreamerContext(esiDocument(o.esiPrefix), TRUE, TRUE),
                            document)))

\* C1. Chunk independence: once the stream has closed, what it has emitted
\* for the chunks written is what it emits for the same document written as a
\* single chunk, the fetches being answered alike.
ChunkIndependence ==
  pc = "closed" => Concat(out) = WholeOutput(opts, doc, Responses)

\* The element a dispatched node or a request refers to.
Element(id) == context.heap[id]

IsEsi(id, localName) ==
  Element(id).namespace = EsiNamespace /\ Element(id).localName = localName

\* The index of the last request issued for the element id.
LastRequest(id) == SetMax({k \in 1..Len(fetched) : fetched[k].el = id})

\* C2. Output is in source order: the chunks emitted are, one for one and in
\* order, those of the top-level nodes dispatched; the nodes are dispatched in
\* the order the input gave them (an element's id is its rank among the open
\* tags read); a text node is emitted as it is and a top-level include as the
\* body its successful fetch returned.
EmittedInSourceOrder ==
  /\ Len(out) <= Len(dispatched)
  /\ Len(dispatched) <= Len(out) + 1
  /\ pc \in {"idle", "closed"} => Len(out) = Len(dispatched)
  /\ \A j, k \in 1..Len(dispatched) :
        j < k /\ IsElem(dispatched[j].node) /\ IsElem(dispatched[k].node)
          => dispatched[j].node.id < dispatched[k].node.id
  /\ \A k \in 1..Len(out) :
        LET node == dispatched[k].node
        IN /\ ~IsElem(node) => out[k] = node.s
           /\ IsElem(node) /\ IsEsi(node.id, "include")
                => out[k] = BodyOf(fetched[LastRequest(node.id)].url)

\* A run in which both includes of a document were answered at different
\* times and their bodies emitted in the order of the tags.
EmittedInSourceOrderWitness ==
  /\ pc = "closed"
  /\ Len(answers) = 2
  /\ nwrites = MaxChunks
  /\ Concat(out) = "xAyBz"

\* C3 as stated: every top-level element dispatched had its close tag (or its
\* self-closing tag) consumed before.
DispatchedOnlyClosed ==
  \A k \in 1..Len(dispatched) : dispatched[k].closed

\* C3, amended. While the input is open, a top-level element is dispatched
\* only once its close tag has been consumed; the elements still open when
\* the writable side is closed are dispatched by the flush handler as they are.
DispatchedClosedBeforeClose ==
  \A k \in 1..Len(dispatched) : dispatched[k].closing \/ dispatched[k].closed

\* A chunk has been written that leaves an open element first among the
\* top-level children: it is held back, and nothing after it is dispatched.
DispatchedClosedBeforeCloseWitness ==
  /\ pc = "idle"
  /\ nwrites = 1
  /\ context.children # << >>
  /\ isOpenElement(context.openElements, Head(context.children))
  /\ dispatched = << >>

\* C4. Includes are fetched one at a time and in document order: at most one
\* request is in flight, a request is issued only when every earlier one has
\* been answered, and the requests follow the order of their elements.
SequentialFetches ==
  /\ Len(inflight) <= 1
  /\ Len(fetched) = Len(answers) + Len(inflight)
  /\ \A j, k \in 1..Len(fetched) : j < k => fetched[j].el <= fetched[k].el

\* The second include's request is in flight, the first being answered.
SequentialFetchesWitness ==
  /\ Len(inflight) = 1
  /\ Len(answers) = 1
  /\ fetched[1].el < fetched[2].el

----------------------------------------------------------------------------
(* Properties of the directives *)

\* The include elements read, and what the document says of one.
Includes == {id \in 1..Len(context.heap) : IsEsi(id, "include")}

Candidates(id) ==
  (IF MapHas(Element(id).attrs, "src") THEN <<attrValue(Element(id), "src")>> ELSE << >>) \o
  (IF MapHas(Element(id).attrs, "alt") THEN <<attrValue(Element(id), "alt")>> ELSE << >>)

OnError(id) == applyEsiVariables(attrValue(Element(id), "onerror"), opts.vars).value

InTry(id) == Element(id).parent # 0 /\ IsEsi(Element(id).parent, "attempt")

\* The requests issued for the element id, by their indices in fetched.
RequestsOf(id) == {k \in 1..Len(fetched) : fetched[k].el = id}

Answered(k) == k <= Len(answers)

\* Every candidate of the include id has been fetched and has failed.
AllFailed(id) ==
  /\ MapHas(Element(id).attrs, "src")
  /\ Cardinality(RequestsOf(id)) = Len(Candidates(id))
  /\ \A k \in RequestsOf(id) : Answered(k) /\ ~Success(answers[k])

\* The request of the include id that was answered with success, if any.
Succeeded(id) == {k \in RequestsOf(id) : Answered(k) /\ Success(answers[k])}

\* The include id raises EsiIncludeError.
Raises(id) ==
  /\ AllFailed(id)
  /\ opts.handleIncludeError # "custom"
  /\ OnError(id) # "continue"

\* The text s with its include tag replaced by r.
ReplaceInclude(s, r) ==
  LET p == IndexOf(s, "<esi:include", 0)
  IN SliceTo(s, 0, p) \o r \o Slice(s, IndexOf(s, "/>", p) + 2)

\* The text of s between the first open and the first close after it, and
\* the text after the first close.
Between(s, open, close) ==
  LET p == IndexOf(s, open, 0) + Len(open)
  IN SliceTo(s, p, IndexOf(s, close, p))

After(s, close) == Slice(s, IndexOf(s, close, 0) + Len(close))

\* The whole document has been written and no handler is suspended.
Settled == nwrites > 0 /\ pc \in {"idle", "closed"}

\* C5. The candidates of an include are fetched in the order src, alt, each
\* with GET at its URL resolved against the base URL; the next one is fetched
\* if and only if the one before has failed; and the include outside a try is
\* replaced by the body of the first response with a status in 200..299.
IncludeFirstSuccess ==
  \A id \in Includes :
    /\ \A k \in RequestsOf(id) :
          LET j == k - SetMin(RequestsOf(id)) + 1
          IN /\ j <= Len(Candidates(id))
             /\ fetched[k].url = NewURL(Candidates(id)[j], opts.url)
             /\ fetched[k].method = "GET"
             /\ j > 1 => Answered(k - 1) /\ ~Success(answers[k - 1])
             /\ Answered(k) /\ Success(answers[k]) => k = SetMax(RequestsOf(id))
             /\ Answered(k) /\ ~Success(answers[k]) /\ j < Len(Candidates(id))
                  => k + 1 \in RequestsOf(id)
    /\ \A k \in Succeeded(id) :
          Settled /\ ~InTry(id) => Concat(out) = ReplaceInclude(doc, BodyOf(fetched[k].url))

\* src has failed, alt has been fetched with success and its body stands in
\* the place of the include.
IncludeFirstSuccessWitness ==
  /\ pc = "closed"
  /\ answers = <<404, 200>>
  /\ fetched[2].url = "http://h/b"
  /\ Concat(out) = "pBq"

\* C6. The stream fails with EsiIncludeError, carrying the include, exactly
\* for an include outside a try all of whose candidates have failed, for which
\* no handleIncludeError has set a customErrorString and whose onerror is not
\* "continue"; inside a try the error does not reach the stream.
IncludeErrorExactly ==
  /\ err.kind = "EsiIncludeError"
       => /\ pc = "errored"
          /\ err.el \in Includes
          /\ Raises(err.el)
          /\ ~InTry(err.el)
  /\ \A id \in Includes :
        Raises(id) /\ ~InTry(id)
          => pc = "errored" /\ err.kind = "EsiIncludeError" /\ err.el = id

\* src and alt have both failed under a handler that sets no string, and the
\* stream has failed with the include's EsiIncludeError.
IncludeErrorExactlyWitness ==
  /\ pc = "errored"
  /\ err.kind = "EsiIncludeError"
  /\ answers = <<404, 404>>
  /\ opts.handleIncludeError = "ignore"

Replacement(id) ==
  IF Succeeded(id) # {} THEN BodyOf(fetched[CHOOSE k \in Succeeded(id) : TRUE].url)
  ELSE IF opts.handleIncludeError = "custom" THEN CustomErrorString
  ELSE ""

\* C9. A try whose attempt raises EsiIncludeError is replaced by the
\* children of its except, and by nothing of its attempt; a try whose attempt
\* raises nothing is replaced by the transformed children of its attempt, and
\* by nothing of its except.  The error does not reach the stream.
TryAttemptOrExcept ==
  \A id \in Includes :
    InTry(id) /\ MapHas(Element(id).attrs, "src") =>
      /\ err.kind # "EsiIncludeError"
      /\ Raises(id) => pc # "errored"
      /\ Settled
           => Concat(out) =
                (IF Raises(id) THEN Between(doc, "<esi:except>", "</esi:except>")
                 ELSE ReplaceInclude(Between(doc, "<esi:attempt>", "</esi:attempt>"),
                                     Replacement(id)))
                \o After(doc, "</esi:try>")

\* The include of the attempt has failed after the attempt's first text, and
\* the stream has closed with the except's text in the place of the try.
TryAttemptOrExceptWitness ==
  /\ pc = "closed"
  /\ answers = <<404>>
  /\ opts.handleIncludeError = "none"
  /\ Concat(out) = "34"

\* The attempt of the document holds a misplaced esi:attempt, or an include
\* without src: its transformation raises EsiStructureError, or TypeError.
AttemptRaises(kind) ==
  LET attempt == Between(doc, "<esi:attempt>", "</esi:attempt>")
  IN /\ StartsWith(doc, "<esi:try>")
     /\ IF kind = "EsiStructureError" THEN IndexOf(attempt, "<esi:attempt/>", 0) >= 0
        ELSE /\ IndexOf(attempt, "<esi:include", 0) >= 0
             /\ IndexOf(attempt, "src=", 0) < 0

\* C10. An error other than EsiIncludeError raised in the attempt of a try
\* is not caught: the stream fails with it, and nothing of the except is
\* emitted.
TryCatchesOnlyIncludeError ==
  \A kind \in {"EsiStructureError", "TypeError"} :
    nwrites > 0 /\ AttemptRaises(kind)
      => /\ pc = "errored"
         /\ err.kind = kind
         /\ out = << >>

\* The attempt held a misplaced esi:attempt and the stream has failed with
\* its EsiStructureError.
TryCatchesOnlyIncludeErrorWitness ==
  /\ pc = "errored"
  /\ err.kind = "EsiStructureError"
  /\ AttemptRaises("EsiStructureError")
  /\ out = << >>

----------------------------------------------------------------------------
(* Properties of esi:choose and of the expression evaluator *)

Chooses == {id \in 1..Len(context.heap) : IsEsi(id, "choose")}

\* The children of the element id that are ESI elements named localName, as
\* places in its children.
Tags(id, localName) == esiChildTags(context.heap, id, localName)

\* The test of the when at place k of the choose id, evaluated.
Test(id, k) ==
  evaluate(attrValue(Element(Element(id).children[k].id), "test"), opts.vars)

\* The when at place k is the first whose test is true, no test before it
\* having thrown.
FirstTrue(id, k) ==
  /\ Test(id, k).ok /\ Test(id, k).value
  /\ \A j \in Tags(id, "when") : j < k => Test(id, j).ok /\ ~Test(id, j).value

\* The text of the children of the branch at place k of the choose id, the
\* host variable substituted.
BranchText(id, k) ==
  LET kids == Element(Element(id).children[k].id).children
  IN ReplaceAll(Concat([j \in 1..Len(kids) |-> kids[j].s]), "$(HTTP_HOST)", "h")

\* C11. Once a document made of one esi:choose is written, the stream has
\* emitted the children of the first when whose test is true, whatever the
\* tests of the whens after it; if every test is false it has emitted the
\* children of the otherwise, or nothing if there is none.
ChooseFirstTrueWhen ==
  \A id \in Chooses :
    nwrites > 0 /\ Element(id).parent = 0 =>
      /\ \A k \in Tags(id, "when") :
           FirstTrue(id, k) => pc # "errored" /\ Concat(out) = BranchText(id, k)
      /\ (\A k \in Tags(id, "when") : Test(id, k).ok /\ ~Test(id, k).value) =>
           /\ pc # "errored"
           /\ \A k \in Tags(id, "otherwise") : Concat(out) = BranchText(id, k)
           /\ Tags(id, "otherwise") = {} => Concat(out) = ""

\* The first when is true and the test of the second, which would throw, is
\* not evaluated.
ChooseFirstTrueWhenWitness ==
  \E id \in Chooses :
    /\ pc = "closed"
    /\ \E k, j \in Tags(id, "when") :
         k < j /\ FirstTrue(id, k) /\ ~Test(id, j).ok /\ Concat(out) = "a"

\* C12. evaluate never fails: the test of every when of a written document
\* evaluates to a boolean without throwing, the stream does not fail, and a
\* when whose test is not true is treated as a false when, the children of
\* the otherwise being emitted.
EvaluateNeverFails ==
  \A id \in Chooses :
    nwrites > 0 /\ Element(id).parent = 0 =>
      /\ pc # "errored"
      /\ \A k \in Tags(id, "when") :
           /\ Test(id, k).ok
           /\ Test(id, k).value \in BOOLEAN
           /\ ~FirstTrue(id, k) /\ Tags(id, "when") = {k} =>
                \A j \in Tags(id, "otherwise") : Concat(out) = BranchText(id, j)

(* Properties of variable substitution *)

\* The text with its variables substituted, HTTP_HOST being "h" and X unset.
Substituted(text) == ReplaceAll(ReplaceAll(text, "$(X|d)", "d"), "$(HTTP_HOST)", "h")

\* C13. Once a document made of text, an esi:vars holding text, and text is
\* written and closed, the output is the text before and the text after the
\* esi:vars as written, their $(...) tokens untouched, with the text inside
\* the esi:vars between them, its $(...) tokens substituted.
VarsOnlyInsideVars ==
  \A pre \in Texts, inner \in Texts, post \in Texts :
    doc = VarsDocument(pre, inner, post) /\ pc = "closed" =>
      Concat(out) = pre \o Substituted(inner) \o post

\* A variable stands before, inside and after the esi:vars.
VarsOnlyInsideVarsWitness ==
  /\ doc = VarsDocument("$(HTTP_HOST)", "$(X|d) $(HTTP_HOST)", "$(HTTP_HOST)")
  /\ pc = "closed"
  /\ Concat(out) = "$(HTTP_HOST)d h$(HTTP_HOST)"

\* C14. The value of applyVars is restored on every exit from the try, vars
\* and choose branches, exits by error included: whenever no handler is
\* running (the stream is idle, closed or has failed) applyVars is false as
\* at construction, the text that follows the element at top level is emitted
\* as written, and after a vars nested in a vars the text of the outer vars
\* is still substituted.
ApplyVarsRestored ==
  /\ pc \in {"idle", "closed", "errored"} => applyVars = FALSE
  /\ doc \in ErrorExits \cup {NestedVars} /\ pc = "closed" =>
       EndsWith(Concat(out), "$(HTTP_HOST)")
  /\ doc = NestedVars /\ pc = "closed" => Concat(out) = "ah$(HTTP_HOST)"

\* The include of an attempt failed: the attempt was left by the
\* EsiIncludeError, the except was emitted with its variable substituted and
\* the text after the try is as written.
ApplyVarsRestoredWitness ==
  /\ doc = Attempted("1<esi:include src='a'/>2")
  /\ pc = "closed"
  /\ answers = <<404>>
  /\ ~applyVars
  /\ Concat(out) = "3h$(HTTP_HOST)"

\* C27. In a subtree with applyVars enabled the text at every depth has its
\* $(...) tokens substituted: once a document of DeepVars has been written
\* and closed, both the text that is a child of the vars, attempt, when or
\* otherwise and the text inside the element of another namespace next to it
\* have been emitted with the host in the place of $(HTTP_HOST).
VarsAtEveryDepth ==
  doc \in DeepVars /\ pc = "closed" => Concat(out) = "h<f:b xmlns:f=\"u\">h</f:b>"

(* Properties of the ESI comment markers and of the namespace prefix *)

\* C15. ESI comment markers are stripped across chunk boundaries: once a
\* document holding a <!--esi opener is written, in whatever chunks, and
\* closed, the output is the document without its <!--esi and --> markers,
\* the text between them kept.
EsiCommentsStripped ==
  IndexOf(doc, EsiCommentOpen, 0) >= 0 /\ pc = "closed" =>
    Concat(out) = ReplaceAll(ReplaceAll(doc, "<!--esi", ""), "-->", "")

\* C16. Unknown XML passes through: a document without <!--esi, ESI tags or
\* default-namespace tags, made of text and tags of foreign prefixes, does
\* not make the stream fail and is emitted as it was written.
PassThroughUnknown ==
  doc \in ForeignDocuments /\ nwrites > 0 =>
    /\ pc # "errored"
    /\ pc = "closed" => Concat(out) = doc

\* C28. Serialization after parsing gives the input back: a document of
\* WellFormedDocuments, which holds no ESI directive and is written as the
\* serialization writes (double quotes, ' />' for an element without
\* children, the namespace declarations after the attributes), is emitted as
\* it was written once the stream has closed, every child of every element in
\* its place.
SerializeAfterParse ==
  doc \in WellFormedDocuments /\ nwrites > 0 =>
    /\ pc # "errored"
    /\ pc = "closed" => Concat(out) = doc

\* C17. Only the configured prefix is ESI: with esiPrefix a custom
\* identifier or null, an esi:include without xmlns declaration is not
\* processed, no fetch is issued for it, the stream does not fail and the tag
\* is emitted as written; with esiPrefix absent, esi:include is processed.
OnlyConfiguredPrefix ==
  doc = EsiInclude /\ nwrites > 0 =>
    /\ opts.esiPrefix \in {Null, "my-esi", "e"} =>
         /\ fetched = << >>
         /\ pc # "errored"
         /\ pc = "closed" => Concat(out) = doc
    /\ opts.esiPrefix = Undefined =>
         /\ Len(fetched) = 1
         /\ pc = "closed" /\ answers = <<200>> => Concat(out) = "fooAbaz"

\* An identifier: [A-Za-z][-A-Za-z0-9]*
Identifier(p) ==
  /\ Len(p) > 0
  /\ \A i \in 1..Len(p) :
       \E c \in {SubSeq(p, i, i)} :
         \/ \E j \in 1..52 :
              c = SubSeq("ABCDEFGHIJKLMNOPQRSTUVWXYZabcdefghijklmnopqrstuvwxyz", j, j)
         \/ i > 1 /\ \E j \in 1..11 : c = SubSeq("-0123456789", j, j)

\* C18. An esiPrefix string that is not an identifier, the empty string
\* included, makes the constructor throw an EsiError: the stream is never
\* built, nothing is written to it, dispatched or emitted.  A prefix that is
\* an identifier, null or absent does not make it throw.
InvalidPrefixThrows ==
  IF opts.esiPrefix \notin {Undefined, Null} /\ ~Identifier(opts.esiPrefix)
  THEN /\ pc = "failed"
       /\ err.kind = "EsiError"
       /\ err.message = "ESI namespace prefix '" \o opts.esiPrefix
                        \o "' is not a valid identifier."
       /\ nwrites = 0 /\ unread = doc /\ dispatched = << >> /\ out = << >>
  ELSE pc # "failed"

InvalidPrefixThrowsWitness ==
  /\ opts.esiPrefix = ""
  /\ pc = "failed"
  /\ err.message = "ESI namespace prefix '' is not a valid identifier."

(* Properties of recursive includes and of the include requests *)

\* What the documents of DocumentsR become when every fetch succeeds and
\* every fragment is processed in its turn.
Processed(document) ==
  CASE document = "p<esi:include src='http://g/n'/>q" -> "p[?]q"
    [] document = "p<esi:include src='/0'/>q" -> "pq"
    [] document = "p<esi:include src='a'/><esi:include src='//g/b'/>q" -> "pA?q"
    [] document = OverrideThenAlt -> "p?q"
    [] document = OverrideThenInclude -> "p?Aq"
    [] document = OverrideThenVars -> "p?hq"

\* C19. With the default processIncludeResponse the fragment of a successful
\* include is itself processed, at depth + 1, before it is substituted: the
\* requests of a fragment's includes follow the fragment's own request, one
\* level deeper; the output holds no ESI tag of a fragment; with every fetch
\* successful it is the document with every include, nested ones included,
\* replaced; and a response without body is replaced by the empty string.
IncludesProcessedInnerFirst ==
  opts.processIncludeResponse = "esi" =>
    /\ \A k \in 1..Len(fetched) :
         /\ fetched[k].depth > 0 =>
              /\ k > 1 /\ fetched[k - 1].depth >= fetched[k].depth - 1
              /\ \E j \in 1..(k - 1) :
                   /\ fetched[j].depth = fetched[k].depth - 1
                   /\ answers[j] = 200
                   /\ IndexOf(BodyOf(fetched[j].url), "<esi:include", 0) >= 0
                   /\ \A i \in (j + 1)..(k - 1) : fetched[i].depth >= fetched[k].depth
         /\ k <= Len(answers) /\ answers[k] = 200 /\ pc \in {"idle", "closed"}
            /\ BodyOf(fetched[k].url) # Null
            /\ IndexOf(BodyOf(fetched[k].url), "<esi:include", 0) >= 0 =>
              k < Len(fetched) /\ fetched[k + 1].depth = fetched[k].depth + 1
    /\ pc = "closed" =>
         /\ IndexOf(Concat(out), "<esi:", 0) < 0
         /\ (\A k \in 1..Len(answers) : answers[k] = 200) => Concat(out) = Processed(doc)

\* An include of a fragment of another host that holds an include: the
\* fragment's request is followed by its include's request, one level
\* deeper and resolved against the fragment's URL, and the output holds the
\* inner body.
IncludesProcessedInnerFirstWitness ==
  /\ opts.processIncludeResponse = "esi"
  /\ pc = "closed"
  /\ [k \in 1..Len(fetched) |-> fetched[k].url] = <<"http://g/n", "http://g/a">>
  /\ [k \in 1..Len(fetched) |-> fetched[k].depth] = <<0, 1>>
  /\ Concat(out) = "p[?]q"

\* The URL and headers of the transformer that issued the k-th request: the
\* stream's own at depth 0, and at a greater depth those of the request
\* whose response the inner stream processes.
Issuer(k) ==
  IF fetched[k].depth = 0 THEN [url |-> opts.url, headers |-> opts.headers]
  ELSE LET j == SetMax({i \in 1..(k - 1) : fetched[i].depth = fetched[k].depth - 1})
       IN [url |-> fetched[j].url, headers |-> fetched[j].headers]

\* C20. Every include request is a GET that carries the headers of the
\* transformer issuing it, with the host header set to the target's host if
\* and only if that host is not the host of the transformer's URL.
IncludeRequestHeaders ==
  \A k \in 1..Len(fetched) :
    LET base == Issuer(k)
        target == UrlHost(fetched[k].url)
        headers == fetched[k].headers
    IN /\ fetched[k].method = "GET"
       /\ Len(headers) = Len(base.headers)
       /\ \A i \in 1..Len(headers) :
            /\ headers[i].key = base.headers[i].key
            /\ headers[i].value =
                 IF headers[i].key = "host" /\ target # UrlHost(base.url)
                 THEN target ELSE base.headers[i].value

\* A request to another host and then a request to the stream's own host
\* have been issued by the outer transformer.
IncludeRequestHeadersWitness ==
  /\ doc = "p<esi:include src='a'/><esi:include src='//g/b'/>q"
  /\ Len(fetched) = 2
  /\ fetched[1].url = "http://h/a" /\ fetched[1].headers = BaseHeaders
  /\ fetched[2].url = "http://g/b" /\ fetched[2].depth = 0
  /\ fetched[2].headers = <<[key |-> "host", value |-> "g"], [key |-> "accept", value |-> "t"]>>

----------------------------------------------------------------------------
(* Properties of the structure of the directives *)

\* The number of places of s where pat occurs.
Occurrences(s, pat) ==
  Cardinality({i \in 0..Len(s) - Len(pat) : SliceTo(s, i, i + Len(pat)) = pat})

\* The direct attempt and except children the document gives its esi:try.
DirectAttempts ==
  Occurrences(doc, "<esi:attempt>") - Occurrences(doc, "<f:b xmlns:f='u'><esi:attempt>")

DirectExcepts == Occurrences(doc, "<esi:except>")

IsTryDocument == StartsWith(doc, "p<esi:try>")

\* C21. An esi:try must have exactly one direct child attempt and exactly
\* one direct child except: with any other count of either the stream fails
\* with EsiStructureError at the try, having emitted only what came before
\* the try, fetched nothing and raised no include error of what the try
\* holds; with one of each the try raises no EsiStructureError.
TryExactlyOneAttemptAndExcept ==
  IsTryDocument /\ nwrites > 0 =>
    IF DirectAttempts # 1 \/ DirectExcepts # 1
    THEN /\ pc = "errored"
         /\ err.kind = "EsiStructureError"
         /\ err.message =
              "esi:try requires exactly one esi:" \o
              (IF DirectAttempts # 1 THEN "attempt" ELSE "except") \o
              " tag as a direct child"
         /\ IsEsi(err.el, "try")
         /\ fetched = << >>
         /\ events = << >>
         /\ out = <<"p">>
    ELSE err.kind # "EsiStructureError"

\* A try with two well-formed attempts, each holding an include, and one
\* except has failed the stream before any fetch.
TryExactlyOneAttemptAndExceptWitness ==
  /\ doc = TryDocument(<<AttemptPart, AttemptPart, ExceptPart>>)
  /\ pc = "errored"
  /\ err.kind = "EsiStructureError"
  /\ fetched = << >>

\* The message of the EsiStructureError the transformer has for a directive
\* of Directives, "" if it has none.
StructureErrorOf(directive) ==
  CASE StartsWith(directive, "<esi:attempt") -> "esi:attempt must be direct child of esi:try"
    [] StartsWith(directive, "<esi:except") -> "esi:except must be direct child of esi:try"
    [] StartsWith(directive, "<esi:when") -> "esi:when must be direct child of esi:choose"
    [] StartsWith(directive, "<esi:otherwise") ->
         "esi:otherwise must be direct child of esi:choose"
    [] StartsWith(directive, "<esi:foo") -> "Unknown esi tag esi:foo"
    [] StartsWith(directive, "<esi:Include") -> "Unknown esi tag esi:Include"
    [] OTHER -> ""

\* What a well-placed directive of Directives is replaced by.
ResultOf(directive) == IF StartsWith(directive, "<esi:vars") THEN "v" ELSE ""

\* The output for a place whose directive is replaced by r.
Emitted(place, r) ==
  IF place[1] # "x<f:b xmlns:f='u'>" THEN "x" \o r \o "y"
  ELSE IF r = "" THEN "x<f:b xmlns:f=\"u\" />y"
  ELSE "x<f:b xmlns:f=\"u\">" \o r \o "</f:b>y"

\* C22. Every ESI element the transform reaches is replaced by the result of
\* its directive, or fails the stream with EsiStructureError: an attempt or
\* except outside a try, a when or otherwise outside a choose, and an element
\* of any unknown local name fail with their message at that element; a
\* comment, remove or vars is replaced; and no chunk emitted holds an ESI tag.
DirectivesReplacedOrRejected ==
  \A place \in Places, directive \in Directives :
    doc = DirectiveDocument(place, directive) /\ nwrites > 0 =>
      /\ \A k \in 1..Len(out) : IndexOf(out[k], "esi:", 0) < 0
      /\ IF StructureErrorOf(directive) # ""
         THEN /\ pc = "errored"
              /\ err.kind = "EsiStructureError"
              /\ err.message = StructureErrorOf(directive)
              /\ StartsWith(directive, "<esi:" \o Element(err.el).localName)
         ELSE /\ pc # "errored"
              /\ pc = "closed" => Concat(out) = Emitted(place, ResultOf(directive))

\* An element of unknown name inside an element of another namespace has
\* failed the stream.
DirectivesReplacedOrRejectedWitness ==
  /\ doc = "x<f:b xmlns:f='u'><esi:foo>5</esi:foo></f:b>y"
  /\ pc = "errored"
  /\ err.message = "Unknown esi tag esi:foo"

----------------------------------------------------------------------------
(* Properties of expressions over undefined operands *)

\* The documents whose test holds a comparison of UndefinedComparisons:
\* alone, negated, or joined by | to true.
HoldsUndefinedComparison ==
  \E e \in UndefinedComparisons :
    doc \in {WhenDocument(e), WhenDocument(Negated(e)), WhenDocument(e \o " | true")}

\* C23, as stated. Every expression that holds a comparison with an undefined
\* operand evaluates to false: the when is not taken and the children of the
\* otherwise are emitted.
ExpressionFalseOnUndefined ==
  HoldsUndefinedComparison /\ nwrites > 0 => pc # "errored" /\ Concat(out) = "c"

\* C23, amended. A comparison with an undefined operand yields the boolean
\* false, whatever its operator and its other operand: an expression that is
\* that comparison evaluates to false, and the operators around it take the
\* false as any other boolean, its negation and its disjunction with true
\* evaluating to true.
ComparisonFalseOnUndefined ==
  \A e \in UndefinedComparisons :
    nwrites > 0 =>
      /\ doc = WhenDocument(e) => pc # "errored" /\ Concat(out) = "c"
      /\ doc = WhenDocument(Negated(e)) => pc # "errored" /\ Concat(out) = "a"
      /\ doc = WhenDocument(e \o " | true") => pc # "errored" /\ Concat(out) = "a"

\* The negation of a != between an undefined variable and a number has been
\* evaluated, and the when was taken.
ComparisonFalseOnUndefinedWitness ==
  /\ doc = WhenDocument("!($(X) != 1)")
  /\ pc = "closed"
  /\ Concat(out) = "a"

----------------------------------------------------------------------------
(* Properties of the streamer's buffer *)

\* The part of the document written so far.
Written == SliceTo(doc, 0, Len(doc) - Len(unread))

PartialOpeners == {"<", "<!", "<!-", "<!--", "<!--e", "<!--es"}

\* The proper prefix of a comment marker the written text ends with, "" if it
\* ends with none: of the opener out of an ESI comment, of the closer in one.
MarkerTail ==
  IF context.isInEsiComment
  THEN IF EndsWith(Written, "--") THEN "--"
       ELSE IF EndsWith(Written, "-") THEN "-"
       ELSE ""
  ELSE IF \E m \in PartialOpeners : EndsWith(Written, m)
       THEN Slice(Written, LastIndexOf(Written, "<"))
       ELSE ""

\* C24. Between two chunks, the proper prefix of a comment marker that the
\* text written so far ends with is held in postponedString, wherever it
\* starts, the whole of the buffer included; and a stream that has closed has
\* emitted no <!--esi opener.
MarkerTailPostponed ==
  /\ pc = "idle" /\ nwrites > 0 /\ unread # "" /\ MarkerTail # ""
       => context.postponedString = MarkerTail
  /\ pc = "closed" => IndexOf(Concat(out), EsiCommentOpen, 0) < 0

\* The full name of a tag of OpenTags or CloseTags.
TagName(tag) ==
  IF StartsWith(tag, "</") THEN SliceTo(tag, 2, Len(tag) - 1)
  ELSE SliceTo(tag, 1, SetMin({IndexOf(tag, " ", 0), IndexOf(tag, ">", 0)} \ {-1}))

\* The stack discipline, from the k-th tag on: the names of the elements
\* open, bottom first, and the failure of the first close that is refused.
RECURSIVE StackAfter(_, _, _)
StackAfter(tags, k, stack) ==
  IF k > Len(tags) THEN [stack |-> stack, failure |-> ""]
  ELSE IF tags[k] \in OpenTags THEN StackAfter(tags, k + 1, Append(stack, TagName(tags[k])))
  ELSE IF stack = << >> THEN [stack |-> stack, failure |-> "closing-empty-stack"]
  ELSE IF stack[Len(stack)] # TagName(tags[k])
  THEN [stack |-> stack, failure |-> "closing-unmatched"]
  ELSE StackAfter(tags, k + 1, SubSeq(stack, 1, Len(stack) - 1))

\* The names of the elements of the context's stack, bottom first.
OpenNames ==
  [k \in 1..Len(context.openElements) |-> localFullname(context.heap[context.openElements[k]])]

\* C25. After the tags of a document are read, the stack of open elements is
\* what the discipline leaves: an open tag pushes its element, a close tag
\* pops the top element if it has the same full name; a close tag on an empty
\* stack fails the stream with closing-empty-stack, and one that does not
\* match the top with closing-unmatched, the stack being left as the close
\* tag found it.
OpenElementsDiscipline ==
  \A tags \in TagSequences, tail \in Tails :
    doc = TagsDocument(tags, tail) /\ nwrites > 0 /\ pc # "closed" =>
      LET after == StackAfter(tags, 1, << >>)
      IN /\ OpenNames = after.stack
         /\ IF after.failure = "" THEN pc = "idle"
            ELSE pc = "errored" /\ err.kind = "Error" /\ err.message = after.failure

\* A close tag of another prefix than the element open has failed the
\* stream, and the element is still on the stack.
OpenElementsDisciplineWitness ==
  /\ doc = "<esi:vars></f:vars>"
  /\ pc = "errored"
  /\ err.message = "closing-unmatched"
  /\ OpenNames = <<"esi:vars">>

\* The close tags the serialization gives the open elements of a stack that
\* are no ESI elements, the top one first.
RECURSIVE ClosersOf(_)
ClosersOf(stack) ==
  IF stack = << >> THEN ""
  ELSE (IF StartsWith(stack[Len(stack)], "esi:") THEN ""
        ELSE "</" \o stack[Len(stack)] \o ">")
       \o ClosersOf(SubSeq(stack, 1, Len(stack) - 1))

\* The number of tags, from the k-th on, that open a top-level element, depth
\* being the number of elements open.
RECURSIVE TopLevelOpens(_, _, _)
TopLevelOpens(tags, k, depth) ==
  IF k > Len(tags) THEN 0
  ELSE IF tags[k] \in OpenTags
  THEN (IF depth = 0 THEN 1 ELSE 0) + TopLevelOpens(tags, k + 1, depth + 1)
  ELSE TopLevelOpens(tags, k + 1, depth - 1)

\* The top-level elements dispatched, by their places in dispatched.
DispatchedElements == {k \in 1..Len(dispatched) : IsElem(dispatched[k].node)}

\* C26. Once the stream has closed, the text that was still buffered or
\* postponed has been emitted as the last text of the innermost element that
\* was open (of the top level if none was), every top-level element has been
\* dispatched, the one still open by the flush handler as it was, and the
\* buffer, the postponed text, the stack of open elements and the queue of
\* top-level children are empty.
FlushLeavesNothing ==
  \A tags \in TagSequences, tail \in Tails :
    doc = TagsDocument(tags, tail) /\ pc = "closed" =>
      LET open == StackAfter(tags, 1, << >>).stack
      IN /\ context.bufferedString = ""
         /\ context.postponedString = Undefined
         /\ context.openElements = << >>
         /\ context.children = << >>
         /\ tail # "" => EndsWith(Concat(out), tail \o ClosersOf(open))
         /\ Cardinality(DispatchedElements) = TopLevelOpens(tags, 1, 0)
         /\ Cardinality({k \in DispatchedElements : ~dispatched[k].closed}) =
              (IF open = << >> THEN 0 ELSE 1)
         /\ \A k \in DispatchedElements : ~dispatched[k].closed => dispatched[k].closing

\* An element of another namespace was open, with a text and a postponed <
\* after it, when the stream closed: the element has been emitted with both.
FlushLeavesNothingWitness ==
  /\ doc = "<f:vars xmlns:f='u'>t<"
  /\ pc = "closed"
  /\ Concat(out) = "<f:vars xmlns:f=\"u\">t<</f:vars>"

----------------------------------------------------------------------------
(* Properties of the built-in variables.                                     *)

IsQueryRequest == opts.url = QueryUrl

\* The references that resolve to nothing for the stream's request: an
\* unknown variable, a sub-key of a string variable, an unknown sub-key, an
\* empty value, or a language that the request does not accept.
Unresolved ==
  IF IsQueryRequest
  THEN {"X", "HTTP_HOST{u}", "HTTP_REFERER", "HTTP_COOKIE{u}", "HTTP_ACCEPT_LANGUAGE{u}",
        "QUERY_STRING{e}", "QUERY_STRING{u}"}
  ELSE References \ {"HTTP_HOST"}

\* The text that a default of the token stands for.
DefaultText(default) ==
  CASE default = "" -> ""
    [] default = "|d" -> "d"
    [] default = "|'d e'" -> "d e"

\* C29: a token $(NAME{SUB}|default) whose variable is unknown, whose sub-key
\* is unknown, or whose value is empty or the literal false, is replaced by
\* the default, and by the empty string when it has no default.
DefaultSubstituted ==
  \A r \in References, d \in Defaults :
    (pc = "closed" /\ doc = ReferenceDocument(r, d) /\ r \in Unresolved)
      => Concat(out) = "[" \o DefaultText(d) \o "]"

\* The tests of ReferenceTests that compare the query parameter n = 100 or
\* the cookie id = 571 with a number literal, by what the comparison of the
\* numbers gives.
NumericallyTrue == {"$(QUERY_STRING{n}) == 100", "$(QUERY_STRING{n}) > 20"}
NumericallyFalse == {"$(QUERY_STRING{n}) < 20", "$(HTTP_COOKIE{id}) >= 1000"}

\* C30: a built-in variable whose value is numeric text evaluates to a Number,
\* so that its comparison with a number literal is the comparison of the
\* numbers: the when is taken exactly when the numbers compare so.
VariableComparesNumerically ==
  \A test \in NumericallyTrue \cup NumericallyFalse :
    (pc = "closed" /\ IsQueryRequest /\ doc = WhenDocument(test))
      => Concat(out) = IF test \in NumericallyTrue THEN "a" ELSE "c"

----------------------------------------------------------------------------
(* Properties of the typing of comparisons.                                  *)

IsNumberLiteral(operand) == operand \in {"10", "9"}
IsStringLiteral(operand) == operand \in {"'10'", "'9'"}

\* The number that a typed operand stands for, and its textual form.
NumberOf(operand) == IF operand = "10" THEN 10 ELSE 9
TextOf(operand) == IF operand \in {"10", "'10'"} THEN "10" ELSE "9"

\* What a comparison gives for operands of which the first is less than, or
\* equal to, the second.
Compared(op, less, equal) ==
  CASE op = "==" -> equal
    [] op = "!=" -> ~equal
    [] op = "<" -> less
    [] op = "<=" -> less \/ equal
    [] op = ">" -> ~(less \/ equal)
    [] op = ">=" -> ~less

\* The value of the comparison of two typed operands: numeric for two
\* numbers, of the texts ("10" sorts before "9") when a string takes part and
\* no boolean does, and false for every other combination.
TypedValue(a, op, b) ==
  IF IsNumberLiteral(a) /\ IsNumberLiteral(b)
  THEN Compared(op, NumberOf(a) < NumberOf(b), NumberOf(a) = NumberOf(b))
  ELSE IF a # "true" /\ b # "true"
  THEN Compared(op, TextOf(a) = "10" /\ TextOf(b) = "9", TextOf(a) = TextOf(b))
  ELSE FALSE

\* C31: two numbers are compared numerically, two strings or a string and a
\* number by their textual forms, and any other combination of defined
\* operands is undefined, so that the test is false.
ComparisonTyping ==
  \A a \in TypedOperands, b \in TypedOperands, op \in Comparisons :
    (pc = "closed" /\ doc = WhenDocument(TypedComparison(a, op, b)))
      => Concat(out) = IF TypedValue(a, op, b) THEN "a" ELSE "c"

ComparisonTypingWitness ==
  /\ pc = "closed"
  /\ doc = WhenDocument(TypedComparison("10", ">", "9"))
  /\ Concat(out) = "a"

----------------------------------------------------------------------------
(* Properties of the precedence and associativity of the operators.          *)

Booleans == {"true", "false"}
Truth(b) == IF b THEN "true" ELSE "false"

\* The value of a tree, "undefined" when it has none: of a negation, a
\* conjunction or a disjunction when an operand is no boolean, and of an
\* equality of a boolean with anything defined.
RECURSIVE TreeValue(_)
TreeValue(tree) ==
  IF Len(tree) = 1 THEN tree[1]
  ELSE IF Len(tree) = 2
  THEN IF TreeValue(tree[2]) \in Booleans THEN Truth(TreeValue(tree[2]) = "false")
       ELSE "undefined"
  ELSE LET left == TreeValue(tree[2])
           right == TreeValue(tree[3])
       IN IF tree[1] = "=="
          THEN IF left = "undefined" \/ right = "undefined" THEN "false"
               ELSE IF left \in Booleans \/ right \in Booleans THEN "undefined"
               ELSE Truth(left = right)
          ELSE IF left \in Booleans /\ right \in Booleans
          THEN Truth(IF tree[1] = "&" THEN left = "true" /\ right = "true"
                     ELSE left = "true" \/ right = "true")
          ELSE "undefined"

TreeValues == [tree \in Trees |-> TreeValue(tree)]

\* C32: comparisons bind tighter than !, ! tighter than &, & tighter than |,
\* equal binary operators group left to right and parentheses override: the
\* test written for an expression tree holds exactly when the tree's value
\* is true.
EvaluatesTheTree ==
  \A tree \in Trees :
    (pc = "closed" /\ doc = Rendered[tree])
      => Concat(out) = IF TreeValues[tree] = "true" THEN "a" ELSE "c"

EvaluatesTheTreeWitness ==
  /\ pc = "closed"
  /\ doc = WhenDocument("true | false & false")
  /\ doc = Rendered[<<"|", <<"true">>, <<"&", <<"false">>, <<"false">>>>>>]
  /\ Concat(out) = "a"

----------------------------------------------------------------------------
(* Properties of the errors of the except branch.                            *)

BothIncludesFailed == answers = <<404, 404>>

\* C33: an EsiIncludeError raised under the except of a try is not caught by
\* that try: it reaches the stream when no try encloses it, and makes the
\* nearest enclosing try take its own except.
ExceptErrorPropagates ==
  /\ (doc = InnerTry /\ BothIncludesFailed)
       => (pc = "errored" /\ err.kind = "EsiIncludeError" /\ out = << >>)
  /\ (doc = NestedTry /\ BothIncludesFailed)
       => /\ pc \in {"idle", "closed"}
          /\ err = NoError
          /\ Concat(out) = "oq"

ExceptErrorPropagatesWitness ==
  /\ doc = NestedTry
  /\ BothIncludesFailed
  /\ [r \in 1..Len(fetched) |-> fetched[r].url] = <<"http://h/a", "http://h/b">>
  /\ pc = "closed"
  /\ Concat(out) = "oq"

----------------------------------------------------------------------------
(* Properties of the discarded content.                                      *)

\* C34: a directive inside an esi:remove, an esi:comment, a branch of a
\* choose that is not selected, or the except of a try whose attempt
\* succeeded, is never processed: the stream issues no fetch and has no
\* error, and emits only what surrounds the discarded content.
DiscardedNeverProcessed ==
  \A place \in DiscardingPlaces, directive \in DiscardedDirectives :
    doc = DiscardedDocument(place, directive)
      => /\ fetched = << >>
         /\ err = NoError
         /\ pc \in {"idle", "closed"}
         /\ pc = "closed" => Concat(out) = place[3]

DiscardedNeverProcessedWitness ==
  /\ \E place \in DiscardingPlaces :
       /\ doc = DiscardedDocument(place, "<esi:include src='a'/>")
       /\ place[1] = "x<esi:try><esi:attempt>a</esi:attempt><esi:except>"
       /\ Concat(out) = place[3]
  /\ pc = "closed"
  /\ fetched = << >>

----------------------------------------------------------------------------
(* Properties of the tags without a prefix.                                  *)

\* The elements the context holds that were made from a tag, by their
\* prefix and local name.
ElementNames ==
  {<<context.heap[id].localNamespacePrefix, context.heap[id].localName>> :
     id \in {i \in 1..Len(context.heap) : context.heap[i].localName \notin {"_root", "_replace"}}}

\* C35: with ignoreDefaultTags only prefixed tags are recognized: a tag
\* without a prefix creates no element, moves nothing on or off the stack
\* of open elements, raises no error, and is emitted as the text it is:
\* in any chunks when no prefixed element is around it, and inside a
\* prefixed element when that element is written in one chunk.
UnprefixedTagsAreText ==
  \A wrapper \in Wrappers, first \in Pieces, second \in Pieces :
    (doc = PiecesDocument(wrapper, first, second) /\ (wrapper[1] = "" \/ nwrites <= 1))
      => /\ err = NoError
         /\ ElementNames \subseteq {<<"f", "b">>, <<"esi", "vars">>}
         /\ Len(context.openElements) <= 1
         /\ (wrapper[1] = "" \/ pc = "closed") => context.openElements = << >>
         /\ pc = "closed"
              => Concat(out) = IF first \o second = "" /\ wrapper[4] # ""
                               THEN "x<f:b xmlns:f=\"u\" />"
                               ELSE wrapper[3] \o first \o second \o wrapper[4]

UnprefixedTagsAreTextWitness ==
  /\ doc = PiecesDocument(<<"x<f:b xmlns:f='u'>", "</f:b>", "x<f:b xmlns:f=\"u\">", "</f:b>">>,
                          "</b>", "<b a='1'>")
  /\ nwrites = 1
  /\ pc = "closed"
  /\ Concat(out) = "x<f:b xmlns:f=\"u\"></b><b a='1'></f:b>"

----------------------------------------------------------------------------
(* Properties of the namespace resolution.                                   *)

Defines(defs, prefix, ns) == defs = " xmlns:" \o prefix \o "='" \o ns \o "'"

\* The namespace of the inner element's prefix: the first definition on the
\* way from the element over its parent to the document, Undefined if there
\* is none.
Resolved(outerDefs, innerDefs, prefix) ==
  IF Defines(innerDefs, prefix, "w") THEN "w"
  ELSE IF Defines(outerDefs, prefix, "v") THEN "v"
  ELSE IF prefix = "f" THEN "u"
  ELSE IF prefix = "esi" THEN EsiNamespace
  ELSE Undefined

\* C36: a prefix resolves to its first definition on the way from the
\* element over its ancestors to the document; with no definition the
\* stream fails with the error of the unknown prefix, unless the document
\* allows unknown prefixes, and then the namespace is empty.
NamespaceResolution ==
  \A outerDefs \in OuterDefs, innerDefs \in InnerDefs, prefix \in InnerPrefixes :
    (doc = ResolutionDocument(outerDefs, innerDefs, prefix) /\ nwrites = 1)
      => LET ns == Resolved(outerDefs, innerDefs, prefix)
         IN IF ns = Undefined /\ ~context.document.allowUnknownNamespacePrefixes
            THEN pc = "errored" /\ err = UnknownPrefix(prefix) /\ out = << >>
            ELSE /\ pc \in {"idle", "closed"}
                 /\ context.heap[1].namespace = "u"
                 /\ context.heap[2].namespace = IF ns = Undefined THEN "" ELSE ns

NamespaceResolutionWitness ==
  /\ doc = ResolutionDocument(" xmlns:esi='v'", " xmlns:g='w'", "esi")
  /\ pc = "closed"
  /\ context.heap[2].namespace = "v"
  /\ Concat(out) = "<f:a xmlns:f=\"u\" xmlns:esi=\"v\"><esi:vars xmlns:g=\"w\" /></f:a>"

----------------------------------------------------------------------------
(* Properties of the parent references.                                      *)

ElementChildren(heap, id) ==
  {heap[id].children[k].id :
     k \in {j \in 1..Len(heap[id].children) : IsElem(heap[id].children[j])}}

\* The elements of the tree under the element id, itself included.
RECURSIVE Descendants(_, _)
Descendants(heap, id) ==
  {id} \cup UNION {Descendants(heap, child) : child \in ElementChildren(heap, id)}

\* The element of the tree under id whose children are all its own.
ParentsUnder(heap, id) ==
  \A element \in Descendants(heap, id) :
    \A child \in ElementChildren(heap, element) : heap[child].parent = element

\* The top-level elements that the context still holds, and the foreign
\* ones that were transformed: a transform returns a foreign element itself.
ObservableRoots ==
  {context.children[k].id : k \in {j \in 1..Len(context.children) : IsElem(context.children[j])}}
  \cup {dispatched[k].node.id :
          k \in {j \in 1..Len(dispatched) :
                   /\ IsElem(dispatched[j].node)
                   /\ context.heap[dispatched[j].node.id].namespace # EsiNamespace}}

\* C37: after each append and after each transform, every element in the
\* children of an element has that element as its parent, the nodes that a
\* transform spliced in included.
ParentOfEveryChild ==
  pc \in {"idle", "closed"} => \A id \in ObservableRoots : ParentsUnder(context.heap, id)

----------------------------------------------------------------------------
(* Properties of the _root and _replace elements.                            *)

Sentinels == {"_root", "_replace"}

\* C38: the _root and _replace elements never leak: none remains under an
\* element that a transform returned, and no output holds a tag of either
\* name.
SentinelsNeverLeak ==
  /\ \A id \in ObservableRoots :
       \A element \in Descendants(context.heap, id) :
         context.heap[element].localName \notin Sentinels
  /\ IndexOf(Concat(out), "_replace", 0) < 0
  /\ IndexOf(Concat(out), "_root", 0) < 0

SentinelsNeverLeakWitness ==
  /\ doc = "<f:b xmlns:f='u'><esi:vars><f:c/>t</esi:vars></f:b>"
  /\ pc = "closed"
  /\ ObservableRoots = {1}
  /\ Descendants(context.heap, 1) = {1, 3}
  /\ \E id \in 1..Len(context.heap) : context.heap[id].localName = "_replace"
  /\ Concat(out) = "<f:b xmlns:f=\"u\"><f:c />t</f:b>"

----------------------------------------------------------------------------
(* Properties of the transformer's base URL and headers.                     *)

HostOf(headers) == headers[MapIndex(headers, "host")].value

\* C39: an include leaves the transformer's URL and headers as they are:
\* the host set for a candidate of another host is in that candidate's
\* request only, not in the requests of later candidates and includes, not
\* in what the error handler is given, and not in the ESI variables.  (The
\* error handler of an included document's own stream is given that stream's
\* URL and headers, so the handler's part is stated for the documents whose
\* includes all fail in the outer stream.)
HostOverrideStaysLocal ==
  /\ opts.url = BaseUrl
  /\ opts.headers = BaseHeaders
  /\ opts.vars = EsiVariables(BaseUrl, BaseHeaders)
  /\ \A k \in 1..Len(fetched) :
       fetched[k].depth = 0
         => HostOf(fetched[k].headers) =
              IF UrlHost(fetched[k].url) = UrlHost(BaseUrl) THEN HostOf(BaseHeaders)
              ELSE UrlHost(fetched[k].url)
  /\ doc \in {OverrideThenAlt, OverrideThenInclude, OverrideThenVars}
       => \A k \in 1..Len(events) :
            events[k].url = BaseUrl /\ events[k].headers = BaseHeaders
  /\ (doc = OverrideThenVars /\ pc = "closed" /\ err = NoError)
       => EndsWith(Concat(out), HostOf(BaseHeaders) \o "q")

HostOverrideStaysLocalWitness ==
  /\ doc = OverrideThenAlt
  /\ answers = <<404, 200>>
  /\ Len(fetched) = 2
  /\ HostOf(fetched[1].headers) = "g"
  /\ HostOf(fetched[2].headers) = "h"
  /\ pc = "closed"

============================================================================
